---- MODULE Spec2Model ----
(***************************************************************************)
(* nxs-go-telegram: the Redis-backed update queue (queue.go, redis.go),    *)
(* the update chain (updatechain.go) and the session state machine         *)
(* (session.go, telegram.go).                                              *)
(*                                                                         *)
(* Go strings that the code concatenates or compares are sequences of      *)
(* indivisible chunks: "user:" + name is <<"user:">> \o name.              *)
(***************************************************************************)
EXTENDS Integers, Sequences, FiniteSets, TLC

(***************************************************************************)
(* Bounds of the model.                                                    *)
(***************************************************************************)
NumUsers == 2        \* users of the one chat: identities (1,1) .. (1,NumUsers)
NumAbsorbers == 2    \* concurrent callers of UpdateAbsorb
NumWorkers == 2      \* concurrent callers of Processing / chainGet
MaxTime == 2         \* the clock runs 0 .. MaxTime
WaitInterval == 1    \* Settings.UpdateQueueWait, in clock ticks
MaxUpdates == 2      \* updates Telegram delivers in one run
MaxCalls == 1        \* chainGet calls per worker in one run
MaxLen == 3          \* longest update list handed to UpdateChain.add directly

Users == 1..NumUsers
Absorbers == 1..NumAbsorbers
Workers == 1..NumWorkers
Keys == {<<1, u>> : u \in Users}

(***************************************************************************)
(* updatechain.go: update types.                                           *)
(***************************************************************************)
UpdateTypeNone == 0
UpdateTypeUnknown == 1
UpdateTypeMessage == 2
UpdateTypeCallback == 3

\* An update as far as the code reads it.  Message / CallbackQuery say whether
\* the pointer is non-nil; chat and user are Message.Chat.ID and
\* Message.From.ID (CallbackQuery.Message.Chat.ID and CallbackQuery.From.ID);
\* cmd and args are what Message.Command() and Message.CommandArguments()
\* return; data is CallbackQuery.Data; mid is the MessageID.
NoData == [fmt |-> "empty", s |-> <<>>, i |-> <<>>]

MkUpdate(id, isMsg, isCb, chat, user, cmd, args, data, mid) ==
    [UpdateID |-> id, Message |-> isMsg, CallbackQuery |-> isCb,
     chat |-> chat, user |-> user, cmd |-> cmd, args |-> args,
     data |-> data, mid |-> mid]

updateTypeEltGet(update) ==
    IF update.Message THEN UpdateTypeMessage
    ELSE IF update.CallbackQuery THEN UpdateTypeCallback
    ELSE UpdateTypeUnknown

\* Mutant of updateIDsGet: the identity is the chat alone.
updateIDsGet_ChatOnly(update) ==
    IF updateTypeEltGet(update) \in {UpdateTypeMessage, UpdateTypeCallback}
    THEN <<update.chat, 1>>
    ELSE <<0, 0>>

updateIDsGet(update) ==
    IF updateTypeEltGet(update) \in {UpdateTypeMessage, UpdateTypeCallback}
    THEN <<update.chat, update.user>>
    ELSE <<0, 0>>

EmptyChain == [updateType |-> UpdateTypeNone, updates |-> <<>>]

\* Mutant of addOne: the check of the chain's type is missing.
addOne_KeepAll(uc, u) ==
    LET t == updateTypeEltGet(u)
        ty == IF uc.updateType = UpdateTypeNone THEN t ELSE uc.updateType
    IN  IF t = UpdateTypeUnknown THEN uc
        ELSE [updateType |-> ty, updates |-> Append(uc.updates, u)]

\* UpdateChain.add: one iteration of the loop over `updates`.
addOne(uc, u) ==
    LET t == updateTypeEltGet(u)
        ty == IF uc.updateType = UpdateTypeNone THEN t ELSE uc.updateType
    IN  IF t = UpdateTypeUnknown THEN uc
        ELSE IF ty # t THEN [uc EXCEPT !.updateType = ty]
        ELSE [updateType |-> ty, updates |-> Append(uc.updates, u)]

RECURSIVE addLoop(_, _)
addLoop(uc, updates) ==
    IF updates = <<>> THEN uc
    ELSE addLoop(addOne(uc, Head(updates)), Tail(updates))

add(uc, updates) == addLoop(uc, updates)

(***************************************************************************)
(* redis.go: the store.  A hash is a function whose domain is its set of   *)
(* fields; a list that does not exist is the empty list.                   *)
(***************************************************************************)
HSet(h, k, v) == [x \in (DOMAIN h) \cup {k} |-> IF x = k THEN v ELSE h[x]]
HDel(h, k) == [x \in (DOMAIN h) \ {k} |-> h[x]]
\* Mutant of HDelCount: the delete reports a removed field to every caller.
HDelCount_AlwaysOne(h, k) == 1

HDelCount(h, k) == IF k \in DOMAIN h THEN 1 ELSE 0
EmptyHash == [x \in {} |-> 0]

(***************************************************************************)
(* session.go: session states.                                             *)
(***************************************************************************)
sessionDestroy == <<"internal:destroy">>
sessionBreak == <<>>

SessStateBreak == sessionBreak
SessStateDestroy == sessionDestroy
\* Mutant of SessState: the name is taken without the "user:" prefix.
SessState_NoPrefix(stateName) == stateName

SessState(stateName) == <<"user:">> \o stateName

\* The state names of the bot descriptions, and a name no description declares.
StateNames == {<<"a">>, <<"b">>}
Undeclared == <<"z">>

\* What a handler can return as NextState.
NextStates ==
    {SessStateBreak, SessStateDestroy}
    \cup {SessState(n) : n \in StateNames \cup {Undeclared}}

\* telegram.go: State, Command, Description; TRUE is a handler that is set.
NoState == [StateHandler |-> FALSE, MessageHandler |-> FALSE,
            CallbackHandler |-> FALSE, SentHandler |-> FALSE]
NoDescription == [Commands |-> <<>>, States |-> [x \in {} |-> NoState],
                  InitHandler |-> FALSE, ErrorHandler |-> FALSE]

\* Description.commandLookup: the first command of that name, 0 for nil.
commandLookup_Nil(d, cmd) == 0

commandLookup(d, cmd) ==
    LET hits == {i \in DOMAIN d.Commands : d.Commands[i].Command = cmd}
    IN  IF hits = {} THEN 0 ELSE CHOOSE i \in hits : \A j \in hits : i <= j

\* Mutant of NewData: the new record is written without its state.
NewData_NoState(state) == [State |-> sessionBreak, Slots |-> [x \in {} |-> <<>>]]

\* data{State, Slots} of a session that stateSet starts.
NewData(state) == [State |-> state, Slots |-> [x \in {} |-> <<>>]]

\* UpdateChain.commandCheck
commandCheck(uc) ==
    IF uc.updateType # UpdateTypeMessage \/ Len(uc.updates) = 0
    THEN <<<<>>, <<>>>>
    ELSE <<uc.updates[1].cmd, uc.updates[1].args>>

\* UpdateChain.callbackDataGet
callbackDataGet(uc) ==
    IF uc.updateType # UpdateTypeCallback \/ Len(uc.updates) = 0
    THEN NoData
    ELSE uc.updates[1].data

\* A byte that is no valid UTF-8 (a chunk of a string), and the replacement
\* rune U+FFFD.
InvalidByte == "0xFF"
ReplacementRune == "U+FFFD"

\* json.Marshal of a string followed by json.Unmarshal: Marshal coerces the
\* string to valid UTF-8, replacing invalid bytes with the replacement rune.
jsonString(str) ==
    [n \in DOMAIN str |-> IF str[n] = InvalidByte THEN ReplacementRune ELSE str[n]]

\* callbackDataGen: json.Marshal(callbackData{S: state.state, I: identifier})
callbackDataGen(state, identifier) ==
    [fmt |-> "json", s |-> jsonString(state), i |-> jsonString(identifier)]

\* UpdateChain.callbackSessionStateGet: (state, identifier, err)
callbackSessionStateGet_Break(uc) ==
    [state |-> sessionBreak, identifier |-> <<>>, err |-> FALSE]

callbackSessionStateGet(uc) ==
    LET data == callbackDataGet(uc)
    IN  IF data.fmt = "empty" THEN [state |-> sessionBreak, identifier |-> <<>>, err |-> FALSE]
        ELSE IF data.fmt # "json" THEN [state |-> sessionBreak, identifier |-> <<>>, err |-> TRUE]
        ELSE [state |-> data.s, identifier |-> data.i, err |-> FALSE]

\* UpdateChain.MessagesIDGet
MessagesIDGet_Zero(uc) == 0

MessagesIDGet(uc) ==
    IF Len(uc.updates) = 0 THEN 0
    ELSE IF uc.updateType \in {UpdateTypeMessage, UpdateTypeCallback} THEN uc.updates[1].mid
    ELSE 0

\* What the command, init, message, callback and error handlers return.
HandlerRes ==
    {[NextState |-> n, err |-> FALSE] : n \in NextStates}
    \cup {[NextState |-> sessionBreak, err |-> TRUE]}

\* What a StateHandler returns; Message says whether len(hr.Message) > 0.
StateHandlerRes ==
    {[Message |-> m, StickMessage |-> st, NextState |-> n, err |-> FALSE]
        : m \in BOOLEAN, st \in BOOLEAN, n \in NextStates}
    \cup {[Message |-> FALSE, StickMessage |-> FALSE, NextState |-> sessionBreak, err |-> TRUE]}

NoHr == [Message |-> FALSE, StickMessage |-> FALSE, NextState |-> sessionBreak, err |-> FALSE]
NoSessData == [State |-> <<>>, Slots |-> [x \in {} |-> <<>>]]

SsIdle == [chatID |-> 0, userID |-> 0, cs |-> sessionBreak, e |-> FALSE,
           newState |-> sessionBreak, messageID |-> 0, mID |-> 0,
           hr |-> NoHr, d |-> NoSessData, emid |-> 0, ret |-> "nil"]

\* History of one processing cycle: how often each handler and operation was
\* called (counted up to CountCap), the entry handler's call and result, the
\* arguments of the first stateSwitch, the message ids of the sends, the
\* session record when the cycle began (at most one element), and the state
\* the latest stateSwitch has set with the NextState and error its
\* StateHandler returned (at most one element each), whether some StateHandler
\* returned an error or StickMessage = false, whether the latest StateHandler
\* returned a message, the id of the latest message sent, and what destroy
\* found when it was called: the updates received so far, no UpdateAbsorb in
\* flight for the identity, no other Processing in flight, the chainGet
\* calls left.
CountCap == 2
Ops == {"Command", "Init", "Message", "Callback", "Error", "State", "Sent", "Destroy",
        "SendMessage", "sessSave", "sessDel", "stateSwitch", "lookup"}
NoBegan == [rcv |-> 0, quiet |-> TRUE, alone |-> TRUE, calls |-> [w \in Workers |-> 0]]
NoEntry == [kind |-> "none", st |-> <<>>, a |-> <<>>, b |-> <<>>,
            ns |-> <<>>, err |-> FALSE]
NoDisp == [cnt |-> [o \in Ops |-> 0], entry |-> NoEntry,
           sw0 |-> [st |-> <<>>, mid |-> 0], sendMids |-> {}, before |-> <<>>,
           last |-> [st |-> <<>>, res |-> <<>>, msg |-> FALSE], unstuck |-> FALSE,
           began |-> NoBegan, sent |-> 0]

Count(h, op) == [h EXCEPT !.cnt[op] = IF @ < CountCap THEN @ + 1 ELSE @]

(***************************************************************************)
(* session.go: slots. A slot value is a struct with one integer field; gob *)
(* transmits the fields that are not zero and decoding sets the fields it  *)
(* received in the destination, leaving the others as they were.           *)
(***************************************************************************)
SlotNames == {"x", "y"}
SlotValues == [a : {0, 1}]
ZeroValue == [a |-> 0]

\* gob.NewEncoder(&buf).Encode(data): the (field, value) pairs sent.
gobEncode(data) == IF data.a = 0 THEN <<>> ELSE <<<<"a", data.a>>>>

\* gob.NewDecoder(bytes.NewBuffer(ds)).Decode(data): data after decoding.
gobDecode(ds, data) == IF ds = <<>> THEN data ELSE [data EXCEPT !.a = ds[1][2]]

NoRet == [exists |-> FALSE, err |-> "nil", data |-> ZeroValue]
SoIdle == [pc |-> "idle", op |-> "none", slot |-> "x", data |-> ZeroValue,
           d |-> NoSessData, ret |-> NoRet]
NoSlots == [n \in SlotNames |-> <<>>]

\* An identity no destroy has wiped yet is as a destroy leaves it: no update
\* received before, nothing overlapped, no stateSet since.
NoDestroy == [rcv |-> 0, quiet |-> TRUE, alone |-> TRUE, fresh |-> TRUE]

VARIABLES
    now,        \* the clock read by time.Now()
    meta,       \* redis hash "meta": key -> waitTill
    updates,    \* redis lists "updates:<key>": key -> list of updates
    sess,       \* redis hash "sess": key -> data{State, Slots}
    received,   \* number of updates delivered by Telegram so far
    ab,         \* UpdateAbsorb callers: [pc, update, waitTill, t0]
    wk,         \* Processing callers: chainGet locals
    callsLeft,  \* chainGet calls each worker still makes
    h_win,      \* history: what each worker's winning meta delete saw
    h_meta,     \* history: per key, the enqueue calls and meta writes
    h_enq,      \* history: every update ever pushed to a list
    description,\* Telegram.description: which handlers the bot declares
    ss,         \* Processing callers: the Session and the dispatcher's locals
    h_disp,     \* history: what the current processing cycle has done
    so,         \* the slot operation a running handler has called
    h_slots,    \* history: per key, what SlotSave and SlotDel left in each slot
    h_destroy,  \* history: per key, how the last destroy went
    buttons     \* the inline buttons of the messages sent: [chatID, state, identifier, data]

vars == <<now, meta, updates, sess, received, ab, wk, callsLeft, h_win, h_meta, h_enq,
          description, ss, h_disp, so, h_slots, h_destroy, buttons>>

slotVars == <<so, h_slots>>

dispVars == <<description, ss, h_disp, so, h_slots, h_destroy, buttons>>

NoUpdate == MkUpdate(0, FALSE, FALSE, 0, 0, <<>>, <<>>, NoData, 0)
NoMetaRec == [chatID |-> 0, userID |-> 0, waitTill |-> 0]

AbIdle == [pc |-> "idle", update |-> NoUpdate, waitTill |-> 0, t0 |-> 0]
WkIdle == [pc |-> "idle", qm |-> {}, m |-> NoMetaRec, len |-> 0,
           updates |-> <<>>, uc |-> EmptyChain, err |-> "nil"]
NoWin == [won |-> FALSE, lost |-> FALSE, at |-> 0, waitTill |-> 0, buf |-> <<>>]
NoHist == [called |-> FALSE, lastCall |-> 0, lastWrite |-> 0, overlapped |-> FALSE]

\* The updates Telegram delivers to the bot in the queue specifications: for
\* every identity a plain message and a button click, and one update of a
\* kind the library does not know (an edited message, say).
Incoming ==
    {MkUpdate(0, TRUE, FALSE, 1, u, <<>>, <<>>, NoData, 1) : u \in Users}
    \cup {MkUpdate(0, FALSE, TRUE, 1, u, <<>>, <<>>, NoData, 1) : u \in Users}
    \cup {MkUpdate(0, FALSE, FALSE, 0, 0, <<>>, <<>>, NoData, 0)}

(***************************************************************************)
(* time                                                                    *)
(***************************************************************************)
Tick ==
    /\ now < MaxTime
    /\ now' = now + 1
    /\ UNCHANGED <<meta, updates, sess, received, ab, wk, callsLeft, h_win, h_meta, h_enq>>
    /\ UNCHANGED dispVars

(***************************************************************************)
(* Telegram.UpdateAbsorb -> queue.add                                      *)
(***************************************************************************)
\* Mutant of addWaitTill: the interval is not added.
addWaitTill_NoInterval(t) == t

\* queue.add's argument time.Now().Add(q.waitInterval)
addWaitTill(t) == t + WaitInterval

\* UpdateAbsorb up to the call of queueMetaAdd: the identity is read from
\* the update, an update without identity is dropped, the deadline is computed.
UpdateAbsorb(a, tmpl) ==
    /\ ab[a].pc = "idle"
    /\ received < MaxUpdates
    /\ received' = received + 1
    /\ LET u == [tmpl EXCEPT !.UpdateID = received + 1]
           ids == updateIDsGet(u)
       IN  IF ids[1] = 0 \/ ids[2] = 0
           THEN UNCHANGED <<ab, h_meta>>
           ELSE /\ ab' = [ab EXCEPT ![a] = [pc |-> "metaAdd", update |-> u,
                                            waitTill |-> addWaitTill(now), t0 |-> now]]
                /\ h_meta' = [h_meta EXCEPT ![ids] =
                       [@ EXCEPT !.called = TRUE, !.lastCall = now,
                                 !.overlapped = \E b \in Absorbers :
                                     /\ ab[b].pc # "idle"
                                     /\ updateIDsGet(ab[b].update) = ids]]
    /\ UNCHANGED <<now, meta, updates, sess, wk, callsLeft, h_win, h_enq>>
    /\ UNCHANGED dispVars

\* Mutant of queueMetaAdd: the meta is not written.
queueMetaAdd_Skip(a) ==
    /\ ab[a].pc = "metaAdd"
    /\ ab' = [ab EXCEPT ![a].pc = "updateAdd"]
    /\ UNCHANGED <<now, meta, updates, sess, received, wk, callsLeft, h_win, h_meta, h_enq>>
    /\ UNCHANGED dispVars

\* redis.queueMetaAdd: HSet meta <key> waitTill
queueMetaAdd(a) ==
    /\ ab[a].pc = "metaAdd"
    /\ LET k == updateIDsGet(ab[a].update)
       IN  /\ meta' = HSet(meta, k, ab[a].waitTill)
           /\ h_meta' = [h_meta EXCEPT ![k].lastWrite = ab[a].t0]
    /\ ab' = [ab EXCEPT ![a].pc = "updateAdd"]
    /\ UNCHANGED <<now, updates, sess, received, wk, callsLeft, h_win, h_enq>>
    /\ UNCHANGED dispVars

\* redis.queueUpdateAdd: RPush updates:<key> update; queue.add and
\* UpdateAbsorb return.
queueUpdateAdd(a) ==
    /\ ab[a].pc = "updateAdd"
    /\ LET k == updateIDsGet(ab[a].update)
       IN  updates' = [updates EXCEPT ![k] = Append(@, ab[a].update)]
    /\ h_enq' = h_enq \cup {ab[a].update}
    /\ ab' = [ab EXCEPT ![a] = AbIdle]
    /\ UNCHANGED <<now, meta, sess, received, wk, callsLeft, h_win, h_meta>>
    /\ UNCHANGED dispVars

\* queue.add when redis.queueMetaAdd returns an error: add returns it, the
\* update is not pushed.
queueMetaAddError(a) ==
    /\ ab[a].pc = "metaAdd"
    /\ ab' = [ab EXCEPT ![a] = AbIdle]
    /\ UNCHANGED <<now, meta, updates, sess, received, wk, callsLeft, h_win, h_meta, h_enq>>
    /\ UNCHANGED dispVars

\* queue.add when redis.queueUpdateAdd returns an error: add returns it, the
\* meta stays as queueMetaAdd wrote it.
queueUpdateAddError(a) ==
    /\ ab[a].pc = "updateAdd"
    /\ ab' = [ab EXCEPT ![a] = AbIdle]
    /\ UNCHANGED <<now, meta, updates, sess, received, wk, callsLeft, h_win, h_meta, h_enq>>
    /\ UNCHANGED dispVars

(***************************************************************************)
(* queue.chainGet                                                          *)
(***************************************************************************)
\* redis.queueMetasGet: HGetAll meta, parsed into []queueMeta.
queueMetasGet(w) ==
    /\ wk[w].pc = "idle"
    /\ callsLeft[w] > 0
    /\ callsLeft' = [callsLeft EXCEPT ![w] = @ - 1]
    /\ wk' = [wk EXCEPT ![w] = [WkIdle EXCEPT
                !.pc = "scan",
                !.qm = {[chatID |-> k[1], userID |-> k[2], waitTill |-> meta[k]]
                        : k \in DOMAIN meta}]]
    /\ UNCHANGED <<now, meta, updates, sess, received, ab, h_win, h_meta, h_enq>>
    /\ UNCHANGED dispVars

\* time.Now().After(m.waitTill)
After(t, waitTill) == t > waitTill

\* chainGet's loop head: the next meta of the snapshot (Go ranges over the
\* HGetAll map in no fixed order), or the end of the loop.
chainGetScan(w) ==
    /\ wk[w].pc = "scan"
    /\ IF wk[w].qm = {}
       THEN wk' = [wk EXCEPT ![w].pc = "chainGot", ![w].uc = EmptyChain, ![w].err = "nil"]
       ELSE \E m \in wk[w].qm :
              wk' = [wk EXCEPT ![w].qm = @ \ {m}, ![w].m = m,
                               ![w].pc = IF After(now, m.waitTill) THEN "metaDel" ELSE "scan"]
    /\ UNCHANGED <<now, meta, updates, sess, received, ab, callsLeft, h_win, h_meta, h_enq>>
    /\ UNCHANGED dispVars

\* redis.queueMetaDel: HDel meta <key>, the number of fields removed decides
\* who owns the queue.
queueMetaDel(w) ==
    /\ wk[w].pc = "metaDel"
    /\ LET k == <<wk[w].m.chatID, wk[w].m.userID>>
           i == HDelCount(meta, k)
       IN  /\ meta' = HDel(meta, k)
           /\ wk' = [wk EXCEPT ![w].pc = IF i = 0 THEN "scan" ELSE "llen"]
           /\ h_win' = IF i = 0 THEN [h_win EXCEPT ![w].lost = TRUE]
                       ELSE [h_win EXCEPT ![w] = [@ EXCEPT !.won = TRUE, !.at = now,
                                                  !.waitTill = IF k \in DOMAIN meta THEN meta[k] ELSE 0,
                                                  !.buf = updates[k]]]
    /\ UNCHANGED <<now, updates, sess, received, ab, callsLeft, h_meta, h_enq>>
    /\ UNCHANGED dispVars

\* redis.queueUpdatesGet: LLen updates:<key>
queueUpdatesLLen(w) ==
    /\ wk[w].pc = "llen"
    /\ LET k == <<wk[w].m.chatID, wk[w].m.userID>>
           n == Len(updates[k])
       IN  wk' = [wk EXCEPT ![w].len = n,
                            ![w].pc = IF n > 0 THEN "lpop" ELSE "add"]
    /\ UNCHANGED <<now, meta, updates, sess, received, ab, callsLeft, h_win, h_meta, h_enq>>
    /\ UNCHANGED dispVars

\* redis.queueUpdatesGet: one LPop of the loop.  LPop of an empty list is
\* the redis.Nil error: queueUpdatesGet returns it and chainGet returns the
\* empty chain with the error.
queueUpdatesLPop(w) ==
    /\ wk[w].pc = "lpop"
    /\ LET k == <<wk[w].m.chatID, wk[w].m.userID>>
       IN  IF updates[k] = <<>>
           THEN /\ wk' = [wk EXCEPT ![w].pc = "chainGot", ![w].uc = EmptyChain,
                                    ![w].err = "redis: nil"]
                /\ UNCHANGED updates
           ELSE /\ updates' = [updates EXCEPT ![k] = Tail(@)]
                /\ wk' = [wk EXCEPT ![w].updates = Append(@, Head(updates[k])),
                                    ![w].len = @ - 1,
                                    ![w].pc = IF wk[w].len - 1 > 0 THEN "lpop" ELSE "add"]
    /\ UNCHANGED <<now, meta, sess, received, ab, callsLeft, h_win, h_meta, h_enq>>
    /\ UNCHANGED dispVars

\* Mutant of chainGetAdd: after the drain the scan goes on with the next meta.
chainGetAdd_KeepsScanning(w) ==
    /\ wk[w].pc = "add"
    /\ wk' = [wk EXCEPT ![w].uc = add(EmptyChain, wk[w].updates),
                        ![w].err = "nil", ![w].pc = "scan"]
    /\ UNCHANGED <<now, meta, updates, sess, received, ab, callsLeft, h_win, h_meta, h_enq>>
    /\ UNCHANGED dispVars

\* chainGet: uc.add(u); return uc, nil
chainGetAdd(w) ==
    /\ wk[w].pc = "add"
    /\ wk' = [wk EXCEPT ![w].uc = add(EmptyChain, wk[w].updates),
                        ![w].err = "nil", ![w].pc = "chainGot"]
    /\ UNCHANGED <<now, meta, updates, sess, received, ab, callsLeft, h_win, h_meta, h_enq>>
    /\ UNCHANGED dispVars

\* The caller of chainGet has taken the result.
chainGetReturn(w) ==
    /\ wk[w].pc = "chainGot"
    /\ wk' = [wk EXCEPT ![w] = WkIdle]
    /\ h_win' = [h_win EXCEPT ![w] = NoWin]
    /\ UNCHANGED <<now, meta, updates, sess, received, ab, callsLeft, h_meta, h_enq>>
    /\ UNCHANGED dispVars

(***************************************************************************)
(* The queue: concurrent UpdateAbsorb and chainGet callers on one store.   *)
(***************************************************************************)
InitStore ==
    /\ buttons = {}
    /\ now = 0
    /\ meta = EmptyHash
    /\ updates = [k \in Keys |-> <<>>]
    /\ sess = EmptyHash
    /\ received = 0
    /\ ab = [a \in Absorbers |-> AbIdle]
    /\ wk = [w \in Workers |-> WkIdle]
    /\ h_win = [w \in Workers |-> NoWin]
    /\ h_meta = [k \in Keys |-> NoHist]
    /\ h_enq = {}
    /\ ss = [w \in Workers |-> SsIdle]
    /\ h_disp = [w \in Workers |-> NoDisp]
    /\ so = [w \in Workers |-> SoIdle]
    /\ h_slots = [k \in Keys |-> NoSlots]
    /\ h_destroy = [k \in Keys |-> NoDestroy]

InitQueue ==
    /\ InitStore
    /\ description = NoDescription
    /\ callsLeft = [w \in Workers |-> MaxCalls]

NextAbsorb ==
    \E a \in Absorbers :
        \/ \E tmpl \in Incoming : UpdateAbsorb(a, tmpl)
        \/ queueMetaAdd(a)
        \/ queueUpdateAdd(a)

NextChainGet ==
    \E w \in Workers :
        \/ queueMetasGet(w)
        \/ chainGetScan(w)
        \/ queueMetaDel(w)
        \/ queueUpdatesLLen(w)
        \/ queueUpdatesLPop(w)
        \/ chainGetAdd(w)
        \/ chainGetReturn(w)

NextQueue == Tick \/ NextAbsorb \/ NextChainGet

SpecQueue == InitQueue /\ [][NextQueue]_vars

(***************************************************************************)
(* Enqueue calls alone.                                                    *)
(***************************************************************************)
NextEnqueue == Tick \/ NextAbsorb

SpecEnqueue == InitQueue /\ [][NextEnqueue]_vars

\* Enqueue calls whose store calls can fail.
NextEnqueueErrors ==
    \/ Tick
    \/ NextAbsorb
    \/ \E a \in Absorbers : queueMetaAddError(a) \/ queueUpdateAddError(a)

SpecEnqueueErrors == InitQueue /\ [][NextEnqueueErrors]_vars

(***************************************************************************)
(* N chainGet calls racing for one ready queue: identity (1,1) has a meta  *)
(* whose deadline has passed and a buffer of 1..MaxLen updates; any other  *)
(* identity has no queue or one enqueued just now.  No enqueue runs.       *)
(***************************************************************************)
ReadyKey == <<1, 1>>

InitClaim ==
    /\ buttons = {}
    /\ description = NoDescription
    /\ ss = [w \in Workers |-> SsIdle]
    /\ h_disp = [w \in Workers |-> NoDisp]
    /\ so = [w \in Workers |-> SoIdle]
    /\ h_slots = [k \in Keys |-> NoSlots]
    /\ h_destroy = [k \in Keys |-> NoDestroy]
    /\ now = WaitInterval + 1
    /\ sess = EmptyHash
    /\ received = MaxUpdates
    /\ ab = [a \in Absorbers |-> AbIdle]
    /\ wk = [w \in Workers |-> WkIdle]
    /\ callsLeft = [w \in Workers |-> 1]
    /\ h_win = [w \in Workers |-> NoWin]
    /\ h_meta = [k \in Keys |-> NoHist]
    /\ \E n \in 1..MaxLen : \E isMsg \in [1..n -> BOOLEAN] : \E other \in BOOLEAN :
         /\ updates = [k \in Keys |->
               IF k = ReadyKey
               THEN [i \in 1..n |-> MkUpdate(i, isMsg[i], ~isMsg[i], k[1], k[2],
                                             <<>>, <<>>, NoData, 1)]
               ELSE IF other
               THEN <<MkUpdate(n + k[2], TRUE, FALSE, k[1], k[2], <<>>, <<>>, NoData, 1)>>
               ELSE <<>>]
         /\ meta = [k \in (IF other THEN Keys ELSE {ReadyKey}) |->
               IF k = ReadyKey THEN addWaitTill(0) ELSE addWaitTill(now)]
         /\ h_enq = UNION {{updates[k][i] : i \in DOMAIN updates[k]} : k \in Keys}

NextClaim ==
    \E w \in Workers :
        \/ queueMetasGet(w)
        \/ chainGetScan(w)
        \/ queueMetaDel(w)
        \/ queueUpdatesLLen(w)
        \/ queueUpdatesLPop(w)
        \/ chainGetAdd(w)

SpecClaim == InitClaim /\ [][NextClaim]_vars

(***************************************************************************)
(* UpdateChain.add on an arbitrary list of at most MaxLen updates.         *)
(***************************************************************************)
InitChain ==
    /\ buttons = {}
    /\ description = NoDescription
    /\ ss = [w \in Workers |-> SsIdle]
    /\ h_disp = [w \in Workers |-> NoDisp]
    /\ so = [w \in Workers |-> SoIdle]
    /\ h_slots = [k \in Keys |-> NoSlots]
    /\ h_destroy = [k \in Keys |-> NoDestroy]
    /\ now = 0
    /\ meta = EmptyHash
    /\ updates = [k \in Keys |-> <<>>]
    /\ sess = EmptyHash
    /\ received = MaxUpdates
    /\ ab = [a \in Absorbers |-> AbIdle]
    /\ callsLeft = [w \in Workers |-> 0]
    /\ h_win = [w \in Workers |-> NoWin]
    /\ h_meta = [k \in Keys |-> NoHist]
    /\ h_enq = {}
    /\ \E n \in 0..MaxLen : \E f \in [1..n -> Incoming] :
         wk = [w \in Workers |->
                 IF w = 1
                 THEN [WkIdle EXCEPT !.pc = "add",
                                     !.updates = [i \in 1..n |-> [f[i] EXCEPT !.UpdateID = i]]]
                 ELSE WkIdle]

NextChain == \E w \in Workers : chainGetAdd(w)

SpecChain == InitChain /\ [][NextChain]_vars

\* The same lists, beside the queue that builds chains from its buffers.
SpecChainQueue == (InitQueue \/ InitChain) /\ [][NextQueue]_vars

(***************************************************************************)
(* The dispatcher: Processing from the claimed chain to its return.        *)
(***************************************************************************)
\* One step of dispatcher w: next position, new locals, new history.
Step(w, pc, s, h) ==
    /\ wk' = [wk EXCEPT ![w].pc = pc]
    /\ ss' = [ss EXCEPT ![w] = s]
    /\ h_disp' = [h_disp EXCEPT ![w] = h]

\* Processing returns err.
Return(w, err, h) ==
    Step(w, "done",
         [SsIdle EXCEPT !.chatID = ss[w].chatID, !.userID = ss[w].userID, !.ret = err], h)

\* A call of stateSwitch(t, newState, messageID): a new frame.
SwitchTo(w, newState, messageID, h) ==
    Step(w, "stateSwitch",
         [SsIdle EXCEPT !.chatID = ss[w].chatID, !.userID = ss[w].userID,
                        !.newState = newState, !.messageID = messageID], h)

\* description.States[st]
Declared(st) == st \in DOMAIN description.States

\* state.MessageHandler != nil
MessageHandler_Nil(st) == FALSE

MessageHandler(st) == description.States[st].MessageHandler

\* Mutant of AfterHandler: without an ErrorHandler the error is dropped and
\* the NextState returned with it is entered.
AfterHandler_Continue(w, r, messageID, h) ==
    IF r.err /\ description.ErrorHandler
    THEN Step(w, "ErrorHandler", [ss[w] EXCEPT !.emid = messageID], h)
    ELSE SwitchTo(w, r.NextState, messageID, h)

\* The code after a command, init, message or callback handler returned r:
\* without an error its NextState goes to stateSwitch with messageID, with
\* one the ErrorHandler is called if there is one.
AfterHandler(w, r, messageID, h) ==
    IF ~r.err
    THEN SwitchTo(w, r.NextState, messageID, h)
    ELSE IF description.ErrorHandler
    THEN Step(w, "ErrorHandler", [ss[w] EXCEPT !.emid = messageID], h)
    ELSE Return(w, "handler error", h)

\* The history after the entry handler kind was called for state st with
\* arguments a, b and returned r.
Entered(h, kind, st, a, b, r) ==
    [Count(h, kind) EXCEPT !.entry = [kind |-> kind, st |-> st, a |-> a, b |-> b,
                                      ns |-> r.NextState, err |-> r.err]]

\* q.chainGet() handed a chain to Processing.
ChainClaimed(w, uc) ==
    /\ wk[w].pc = "idle"
    /\ callsLeft[w] > 0
    /\ wk' = [wk EXCEPT ![w] = [WkIdle EXCEPT !.pc = "chainGot", !.uc = uc]]
    /\ UNCHANGED <<now, meta, updates, sess, received, ab, callsLeft, h_win, h_meta, h_enq>>
    /\ UNCHANGED dispVars

\* Mutant of sessionInit: ErrUpdateChainZeroLen is returned like any other
\* error.
sessionInit_ZeroLenError(w) ==
    /\ wk[w].pc = "chainGot"
    /\ IF wk[w].err # "nil" THEN Return(w, wk[w].err, NoDisp)
       ELSE IF Len(wk[w].uc.updates) = 0 THEN Return(w, "ErrUpdateChainZeroLen", NoDisp)
       ELSE LET ids == updateIDsGet(wk[w].uc.updates[1])
            IN  Step(w, "stateProcessing",
                     [SsIdle EXCEPT !.chatID = ids[1], !.userID = ids[2]],
                     [NoDisp EXCEPT !.before = IF ids \in DOMAIN sess
                                               THEN <<sess[ids]>> ELSE <<>>])
    /\ UNCHANGED <<now, meta, updates, sess, received, ab, callsLeft, h_win, h_meta, h_enq,
                   description, buttons>>
    /\ UNCHANGED slotVars
    /\ UNCHANGED h_destroy

\* Mutant of sessionInit: the error of chainGet is dropped and the cycle ends
\* as for a zero-length chain.
sessionInit_DropsError(w) ==
    /\ wk[w].pc = "chainGot"
    /\ IF Len(wk[w].uc.updates) = 0 THEN Return(w, "nil", NoDisp)
       ELSE LET ids == updateIDsGet(wk[w].uc.updates[1])
            IN  Step(w, "stateProcessing",
                     [SsIdle EXCEPT !.chatID = ids[1], !.userID = ids[2]],
                     [NoDisp EXCEPT !.before = IF ids \in DOMAIN sess
                                               THEN <<sess[ids]>> ELSE <<>>])
    /\ UNCHANGED <<now, meta, updates, sess, received, ab, callsLeft, h_win, h_meta, h_enq,
                   description, buttons>>
    /\ UNCHANGED slotVars
    /\ UNCHANGED h_destroy

\* Processing after chainGet: its error is returned, a zero-length chain ends
\* the cycle, otherwise the session takes the first update's identity.
sessionInit(w) ==
    /\ wk[w].pc = "chainGot"
    /\ IF wk[w].err # "nil" THEN Return(w, wk[w].err, NoDisp)
       ELSE IF Len(wk[w].uc.updates) = 0 THEN Return(w, "nil", NoDisp)
       ELSE LET ids == updateIDsGet(wk[w].uc.updates[1])
            IN  Step(w, "stateProcessing",
                     [SsIdle EXCEPT !.chatID = ids[1], !.userID = ids[2]],
                     [NoDisp EXCEPT !.before = IF ids \in DOMAIN sess
                                               THEN <<sess[ids]>> ELSE <<>>])
    /\ UNCHANGED <<now, meta, updates, sess, received, ab, callsLeft, h_win, h_meta, h_enq,
                   description, buttons>>
    /\ UNCHANGED slotVars
    /\ UNCHANGED h_destroy

\* Mutant of stateProcessing: a declared command without a handler is routed
\* like a message that is no command.
stateProcessing_NilHandlerRoutes(w) ==
    /\ wk[w].pc = "stateProcessing"
    /\ LET uc == wk[w].uc
           cmd == commandCheck(uc)[1]
           args == commandCheck(uc)[2]
           c == commandLookup(description, cmd)
           h == h_disp[w]
       IN  IF Len(cmd) = 0 \/ c = 0 \/ ~description.Commands[c].Handler
           THEN IF uc.updateType = UpdateTypeMessage THEN Step(w, "StateGet", ss[w], h)
                ELSE IF uc.updateType = UpdateTypeCallback
                THEN Step(w, "stateCallbackProcessing", ss[w], h)
                ELSE Return(w, "nil", h)
           ELSE \E r \in HandlerRes :
                    AfterHandler(w, r, 0, Entered(h, "Command", <<>>, cmd, args, r))
    /\ UNCHANGED <<now, meta, updates, sess, received, ab, callsLeft, h_win, h_meta, h_enq,
                   description, buttons>>
    /\ UNCHANGED slotVars
    /\ UNCHANGED h_destroy

\* stateProcessing with stateCommandProcessing: a declared command takes the
\* cycle, anything else is routed by the chain's type.
stateProcessing(w) ==
    /\ wk[w].pc = "stateProcessing"
    /\ LET uc == wk[w].uc
           cmd == commandCheck(uc)[1]
           args == commandCheck(uc)[2]
           c == commandLookup(description, cmd)
           h == h_disp[w]
       IN  IF Len(cmd) = 0 \/ c = 0
           THEN IF uc.updateType = UpdateTypeMessage THEN Step(w, "StateGet", ss[w], h)
                ELSE IF uc.updateType = UpdateTypeCallback
                THEN Step(w, "stateCallbackProcessing", ss[w], h)
                ELSE Return(w, "nil", h)
           ELSE IF ~description.Commands[c].Handler THEN Return(w, "nil", h)
           ELSE \E r \in HandlerRes :
                    AfterHandler(w, r, 0, Entered(h, "Command", <<>>, cmd, args, r))
    /\ UNCHANGED <<now, meta, updates, sess, received, ab, callsLeft, h_win, h_meta, h_enq,
                   description, buttons>>
    /\ UNCHANGED slotVars
    /\ UNCHANGED h_destroy

\* Session.StateGet at the head of stateMessageProcessing: redis.sessGet.
StateGet(w) ==
    /\ wk[w].pc = "StateGet"
    /\ LET k == <<ss[w].chatID, ss[w].userID>>
           e == k \in DOMAIN sess
       IN  Step(w, "stateMessageProcessing",
                [ss[w] EXCEPT !.e = e, !.cs = IF e THEN sess[k].State ELSE <<>>],
                h_disp[w])
    /\ UNCHANGED <<now, meta, updates, sess, received, ab, callsLeft, h_win, h_meta, h_enq,
                   description, buttons>>
    /\ UNCHANGED slotVars
    /\ UNCHANGED h_destroy

stateMessageProcessing(w) ==
    /\ wk[w].pc = "stateMessageProcessing"
    /\ LET cs == ss[w].cs
           h == h_disp[w]
       IN  IF ~ss[w].e THEN Step(w, "stateInitProcessing", ss[w], h)
           ELSE IF ~Declared(cs) THEN Return(w, "ErrDescriptionStateMissing", Count(h, "lookup"))
           ELSE IF ~MessageHandler(cs) THEN Return(w, "nil", Count(h, "lookup"))
           ELSE \E r \in HandlerRes :
                    AfterHandler(w, r, 0,
                        Entered(Count(h, "lookup"), "Message", cs, <<>>, <<>>, r))
    /\ UNCHANGED <<now, meta, updates, sess, received, ab, callsLeft, h_win, h_meta, h_enq,
                   description, buttons>>
    /\ UNCHANGED slotVars
    /\ UNCHANGED h_destroy

\* Mutant of stateInitProcessing: the InitHandler is called without the test
\* that the description defines one.
stateInitProcessing_NoNilTest(w) ==
    /\ wk[w].pc = "stateInitProcessing"
    /\ so[w].pc = "idle"
    /\ \E r \in HandlerRes :
            AfterHandler(w, r, 0, Entered(h_disp[w], "Init", <<>>, <<>>, <<>>, r))
    /\ UNCHANGED <<now, meta, updates, sess, received, ab, callsLeft, h_win, h_meta, h_enq,
                   description, buttons>>
    /\ so' = [so EXCEPT ![w] = SoIdle]
    /\ UNCHANGED <<h_slots, h_destroy>>

stateInitProcessing(w) ==
    /\ wk[w].pc = "stateInitProcessing"
    /\ so[w].pc = "idle"
    /\ IF ~description.InitHandler THEN Return(w, "nil", h_disp[w])
       ELSE \E r \in HandlerRes :
                AfterHandler(w, r, 0, Entered(h_disp[w], "Init", <<>>, <<>>, <<>>, r))
    /\ UNCHANGED <<now, meta, updates, sess, received, ab, callsLeft, h_win, h_meta, h_enq,
                   description, buttons>>
    /\ so' = [so EXCEPT ![w] = SoIdle]
    /\ UNCHANGED <<h_slots, h_destroy>>

stateCallbackProcessing(w) ==
    /\ wk[w].pc = "stateCallbackProcessing"
    /\ LET cb == callbackSessionStateGet(wk[w].uc)
           cbs == cb.state
           mid == MessagesIDGet(wk[w].uc)
           h == h_disp[w]
       IN  IF cb.err THEN Return(w, "json error", h)
           ELSE IF cbs \in {sessionBreak, sessionDestroy}
           THEN SwitchTo(w, cbs, mid, h)
           ELSE IF ~Declared(cbs) THEN Return(w, "ErrDescriptionStateMissing", Count(h, "lookup"))
           ELSE IF ~description.States[cbs].CallbackHandler THEN Return(w, "nil", Count(h, "lookup"))
           ELSE \E r \in HandlerRes :
                    AfterHandler(w, r, mid,
                        Entered(Count(h, "lookup"), "Callback", cbs, cb.identifier, <<>>, r))
    /\ UNCHANGED <<now, meta, updates, sess, received, ab, callsLeft, h_win, h_meta, h_enq,
                   description, buttons>>
    /\ UNCHANGED slotVars
    /\ UNCHANGED h_destroy

\* description.ErrorHandler after a handler's error: its own error is
\* returned, otherwise its NextState goes to stateSwitch.
ErrorHandler(w) ==
    /\ wk[w].pc = "ErrorHandler"
    /\ so[w].pc = "idle"
    /\ \E r \in HandlerRes :
        IF r.err THEN Return(w, "handler error", Count(h_disp[w], "Error"))
        ELSE SwitchTo(w, r.NextState, ss[w].emid, Count(h_disp[w], "Error"))
    /\ UNCHANGED <<now, meta, updates, sess, received, ab, callsLeft, h_win, h_meta, h_enq,
                   description, buttons>>
    /\ so' = [so EXCEPT ![w] = SoIdle]
    /\ UNCHANGED <<h_slots, h_destroy>>

\* The head of stateSwitch: the switch over the reserved states, then the
\* lookup of newState in description.States.
switchCase_BreakDestroys(newState) ==
    IF newState \in {sessionBreak, sessionDestroy} THEN "destroy"
    ELSE IF ~Declared(newState) THEN "missing" ELSE "set"

switchCase_MissingBreaks(newState) ==
    IF newState = sessionBreak THEN "break"
    ELSE IF newState = sessionDestroy THEN "destroy"
    ELSE IF ~Declared(newState) THEN "break" ELSE "set"

switchCase(newState) ==
    IF newState = sessionBreak THEN "break"
    ELSE IF newState = sessionDestroy THEN "destroy"
    ELSE IF ~Declared(newState) THEN "missing" ELSE "set"

\* stateSwitch(t, newState, messageID) up to stateSet.
stateSwitch(w) ==
    /\ wk[w].pc = "stateSwitch"
    /\ LET newState == ss[w].newState
           h0 == IF h_disp[w].cnt["stateSwitch"] = 0
                 THEN [h_disp[w] EXCEPT !.sw0 = [st |-> newState, mid |-> ss[w].messageID]]
                 ELSE h_disp[w]
           h == Count(h0, "stateSwitch")
           c == switchCase(newState)
       IN  IF c = "break" THEN Return(w, "nil", h)
           ELSE IF c = "destroy" THEN Step(w, "sessDel", ss[w], h)
           ELSE IF c = "missing"
           THEN Return(w, "ErrDescriptionStateMissing", Count(h, "lookup"))
           ELSE Step(w, "stateSetGet", ss[w],
                     [Count(h, "lookup") EXCEPT
                         !.last = [st |-> <<newState>>, res |-> <<>>, msg |-> FALSE]])
    /\ UNCHANGED <<now, meta, updates, sess, received, ab, callsLeft, h_win, h_meta, h_enq,
                   description, buttons>>
    /\ UNCHANGED slotVars
    /\ UNCHANGED h_destroy

\* Mutant of stateSetGet: every stateSet writes a new record.
stateSetGet_Fresh(w) ==
    /\ wk[w].pc = "stateSetGet"
    /\ Step(w, "stateSetSave", [ss[w] EXCEPT !.d = NewData(ss[w].newState)], h_disp[w])
    /\ UNCHANGED <<now, meta, updates, sess, received, ab, callsLeft, h_win, h_meta, h_enq,
                   description, buttons>>
    /\ UNCHANGED slotVars
    /\ UNCHANGED h_destroy

\* stateSet: redis.sessGet, then the record with the new state.
stateSetGet(w) ==
    /\ wk[w].pc = "stateSetGet"
    /\ LET k == <<ss[w].chatID, ss[w].userID>>
           state == ss[w].newState
       IN  Step(w, "stateSetSave",
                [ss[w] EXCEPT !.d = IF k \in DOMAIN sess
                                    THEN [sess[k] EXCEPT !.State = state]
                                    ELSE NewData(state)],
                h_disp[w])
    /\ UNCHANGED <<now, meta, updates, sess, received, ab, callsLeft, h_win, h_meta, h_enq,
                   description, buttons>>
    /\ UNCHANGED slotVars
    /\ UNCHANGED h_destroy

\* stateSet: redis.sessSave, and stateSwitch's test for a StateHandler.
stateSetSave(w) ==
    /\ wk[w].pc = "stateSetSave"
    /\ sess' = HSet(sess, <<ss[w].chatID, ss[w].userID>>, ss[w].d)
    /\ IF ~description.States[ss[w].newState].StateHandler
       THEN Return(w, "nil", Count(h_disp[w], "sessSave"))
       ELSE Step(w, "StateHandler", [ss[w] EXCEPT !.d = NoSessData],
                 Count(h_disp[w], "sessSave"))
    /\ UNCHANGED <<now, meta, updates, received, ab, callsLeft, h_win, h_meta, h_enq,
                   description, buttons>>
    /\ h_slots' = IF <<ss[w].chatID, ss[w].userID>> \in DOMAIN sess THEN h_slots
                   ELSE [h_slots EXCEPT ![<<ss[w].chatID, ss[w].userID>>] = NoSlots]
    /\ h_destroy' = [h_destroy EXCEPT ![<<ss[w].chatID, ss[w].userID>>].fresh = FALSE]
    /\ UNCHANGED so

\* What stateSwitch does after the message part: stop on a MessageHandler,
\* otherwise switch to hr.NextState with mID.
AfterMessage_Recurse(w, s, h) == SwitchTo(w, s.hr.NextState, s.mID, h)

AfterMessage_Stop(w, s, h) == Return(w, "nil", h)

\* Mutant of AfterMessage: the id of the message sent last goes to the next
\* stateSwitch.
AfterMessage_PassSent(w, s, h) ==
    IF MessageHandler(s.newState) THEN Return(w, "nil", h)
    ELSE SwitchTo(w, s.hr.NextState, h.sent, h)

AfterMessage(w, s, h) ==
    IF MessageHandler(s.newState) THEN Return(w, "nil", h)
    ELSE SwitchTo(w, s.hr.NextState, s.mID, h)

\* Mutant of StateHandler: the message the handler returned is not sent.
StateHandler_DropMessage(w) ==
    /\ wk[w].pc = "StateHandler"
    /\ so[w].pc = "idle"
    /\ \E hr \in StateHandlerRes :
        LET h == [Count(h_disp[w], "State")
                     EXCEPT !.last.res = <<[NextState |-> hr.NextState, err |-> hr.err]>>,
                            !.last.msg = hr.Message,
                            !.unstuck = @ \/ hr.err \/ ~hr.StickMessage]
            s == [ss[w] EXCEPT !.hr = hr,
                               !.mID = IF hr.StickMessage THEN ss[w].messageID ELSE 0]
        IN  IF hr.err
            THEN IF description.ErrorHandler
                 THEN Step(w, "ErrorHandler", [ss[w] EXCEPT !.emid = 0], h)
                 ELSE Return(w, "handler error", h)
            ELSE AfterMessage(w, s, h)
    /\ UNCHANGED <<now, meta, updates, sess, received, ab, callsLeft, h_win, h_meta, h_enq,
                   description, buttons>>
    /\ so' = [so EXCEPT ![w] = SoIdle]
    /\ UNCHANGED <<h_slots, h_destroy>>

\* The StateHandler of newState is called and returns hr.
StateHandler(w) ==
    /\ wk[w].pc = "StateHandler"
    /\ so[w].pc = "idle"
    /\ \E hr \in StateHandlerRes :
        LET h == [Count(h_disp[w], "State")
                     EXCEPT !.last.res = <<[NextState |-> hr.NextState, err |-> hr.err]>>,
                            !.last.msg = hr.Message,
                            !.unstuck = @ \/ hr.err \/ ~hr.StickMessage]
            s == [ss[w] EXCEPT !.hr = hr,
                               !.mID = IF hr.StickMessage THEN ss[w].messageID ELSE 0]
        IN  IF hr.err
            THEN IF description.ErrorHandler
                 THEN Step(w, "ErrorHandler", [ss[w] EXCEPT !.emid = 0], h)
                 ELSE Return(w, "handler error", h)
            ELSE IF hr.Message THEN Step(w, "SendMessage", s, h)
            ELSE AfterMessage(w, s, h)
    /\ UNCHANGED <<now, meta, updates, sess, received, ab, callsLeft, h_win, h_meta, h_enq,
                   description, buttons>>
    /\ so' = [so EXCEPT ![w] = SoIdle]
    /\ UNCHANGED <<h_slots, h_destroy>>

\* The id of the message t.bot.Send returns: the id Telegram gives a new
\* message, the edited message's id for an edit.
NewMessageID == 2
MessageSentID(messageID) == IF messageID = 0 THEN NewMessageID ELSE messageID

\* Mutant of SendMessage: the SentHandler is called after a failed send too.
SendMessage_SentOnError(w) ==
    /\ wk[w].pc = "SendMessage"
    /\ \E ok \in BOOLEAN :
        LET h == [Count(h_disp[w], "SendMessage")
                      EXCEPT !.sendMids = @ \cup {ss[w].mID},
                             !.sent = IF ok THEN MessageSentID(ss[w].mID) ELSE @]
        IN  IF description.States[ss[w].newState].SentHandler
            THEN Step(w, "SentHandler", ss[w], h)
            ELSE IF ~ok THEN Return(w, "send error", h)
            ELSE AfterMessage(w, ss[w], h)
    /\ UNCHANGED <<now, meta, updates, sess, received, ab, callsLeft, h_win, h_meta, h_enq,
                   description, buttons>>
    /\ UNCHANGED slotVars
    /\ UNCHANGED h_destroy

\* t.SendMessage(chatID, mID, ...): the transport delivers or fails.
SendMessage(w) ==
    /\ wk[w].pc = "SendMessage"
    /\ \E ok \in BOOLEAN :
        LET h == [Count(h_disp[w], "SendMessage")
                      EXCEPT !.sendMids = @ \cup {ss[w].mID},
                             !.sent = IF ok THEN MessageSentID(ss[w].mID) ELSE @]
        IN  IF ~ok THEN Return(w, "send error", h)
            ELSE IF description.States[ss[w].newState].SentHandler
            THEN Step(w, "SentHandler", ss[w], h)
            ELSE AfterMessage(w, ss[w], h)
    /\ UNCHANGED <<now, meta, updates, sess, received, ab, callsLeft, h_win, h_meta, h_enq,
                   description, buttons>>
    /\ UNCHANGED slotVars
    /\ UNCHANGED h_destroy

\* The identifiers of the buttons a StateHandler puts on its message.
ButtonIdentifiers == {<<"1">>, <<InvalidByte>>}

\* Telegram.SendMessage's button: callbackDataGen(msgData.ButtonState, be.Identifier)
Button(chatID, state, identifier) ==
    [chatID |-> chatID, state |-> state, identifier |-> identifier,
     data |-> callbackDataGen(state, identifier)]

\* Mutant of SendMessageButtons: the buttons are encoded with the state the
\* StateHandler returned as NextState.
SendMessageButtons_NextState(w) ==
    /\ wk[w].pc = "SendMessage"
    /\ \E identifier \in ButtonIdentifiers :
        LET h == [Count(h_disp[w], "SendMessage")
                      EXCEPT !.sendMids = @ \cup {ss[w].mID},
                             !.sent = MessageSentID(ss[w].mID)]
        IN  /\ buttons' = buttons \cup {Button(ss[w].chatID, ss[w].hr.NextState, identifier)}
            /\ IF description.States[ss[w].newState].SentHandler
               THEN Step(w, "SentHandler", ss[w], h)
               ELSE AfterMessage(w, ss[w], h)
    /\ UNCHANGED <<now, meta, updates, sess, received, ab, callsLeft, h_win, h_meta, h_enq,
                   description>>
    /\ UNCHANGED slotVars
    /\ UNCHANGED h_destroy

\* stateSwitch's SendMessage of a message that carries one button, sent
\* without error: ButtonState is newState.
SendMessageButtons(w) ==
    /\ wk[w].pc = "SendMessage"
    /\ \E identifier \in ButtonIdentifiers :
        LET h == [Count(h_disp[w], "SendMessage")
                      EXCEPT !.sendMids = @ \cup {ss[w].mID},
                             !.sent = MessageSentID(ss[w].mID)]
        IN  /\ buttons' = buttons \cup {Button(ss[w].chatID, ss[w].newState, identifier)}
            /\ IF description.States[ss[w].newState].SentHandler
               THEN Step(w, "SentHandler", ss[w], h)
               ELSE AfterMessage(w, ss[w], h)
    /\ UNCHANGED <<now, meta, updates, sess, received, ab, callsLeft, h_win, h_meta, h_enq,
                   description>>
    /\ UNCHANGED slotVars
    /\ UNCHANGED h_destroy

SentHandler(w) ==
    /\ wk[w].pc = "SentHandler"
    /\ so[w].pc = "idle"
    /\ \E err \in BOOLEAN :
        IF err THEN Return(w, "handler error", Count(h_disp[w], "Sent"))
        ELSE AfterMessage(w, ss[w], Count(h_disp[w], "Sent"))
    /\ UNCHANGED <<now, meta, updates, sess, received, ab, callsLeft, h_win, h_meta, h_enq,
                   description, buttons>>
    /\ so' = [so EXCEPT ![w] = SoIdle]
    /\ UNCHANGED <<h_slots, h_destroy>>

\* No UpdateAbsorb call for identity k is in flight.
NoEnqueue(k) == \A a \in Absorbers : ab[a].pc = "idle" \/ updateIDsGet(ab[a].update) # k

\* No Processing call other than worker w's is in flight.
OthersIdle(w) == \A v \in Workers \ {w} : wk[v].pc \in {"idle", "done"}

\* Session.destroy, redis.sessDel: the session, then the meta, then the list.
sessDel(w) ==
    /\ wk[w].pc = "sessDel"
    /\ sess' = HDel(sess, <<ss[w].chatID, ss[w].userID>>)
    /\ Step(w, "sessDelMeta", ss[w],
            [Count(h_disp[w], "sessDel") EXCEPT
                !.began = [rcv |-> received,
                           quiet |-> NoEnqueue(<<ss[w].chatID, ss[w].userID>>),
                           alone |-> OthersIdle(w), calls |-> callsLeft]])
    /\ UNCHANGED <<now, meta, updates, received, ab, callsLeft, h_win, h_meta, h_enq,
                   description, buttons>>
    /\ UNCHANGED slotVars
    /\ UNCHANGED h_destroy

\* Mutant of sessDelMeta: the meta is left in place.
sessDelMeta_Skip(w) ==
    /\ wk[w].pc = "sessDelMeta"
    /\ Step(w, "sessDelUpdates", ss[w], h_disp[w])
    /\ UNCHANGED <<now, meta, updates, sess, received, ab, callsLeft, h_win, h_meta, h_enq,
                   description, buttons>>
    /\ UNCHANGED slotVars
    /\ UNCHANGED h_destroy

sessDelMeta(w) ==
    /\ wk[w].pc = "sessDelMeta"
    /\ meta' = HDel(meta, <<ss[w].chatID, ss[w].userID>>)
    /\ Step(w, "sessDelUpdates", ss[w], h_disp[w])
    /\ UNCHANGED <<now, updates, sess, received, ab, callsLeft, h_win, h_meta, h_enq,
                   description, buttons>>
    /\ UNCHANGED slotVars
    /\ UNCHANGED h_destroy

sessDelUpdates(w) ==
    /\ wk[w].pc = "sessDelUpdates"
    /\ updates' = [updates EXCEPT ![<<ss[w].chatID, ss[w].userID>>] = <<>>]
    /\ Return(w, "nil", [h_disp[w] EXCEPT !.began = NoBegan])
    /\ LET k == <<ss[w].chatID, ss[w].userID>>
           b == h_disp[w].began
       IN  h_destroy' = [h_destroy EXCEPT ![k] =
               [rcv |-> received,
                quiet |-> /\ b.quiet
                          /\ NoEnqueue(k)
                          /\ \A u \in h_enq : updateIDsGet(u) = k => u.UpdateID <= b.rcv,
                alone |-> b.alone /\ OthersIdle(w) /\ callsLeft = b.calls,
                fresh |-> TRUE]]
    /\ UNCHANGED <<now, meta, sess, received, ab, callsLeft, h_win, h_meta, h_enq,
                   description, buttons>>
    /\ UNCHANGED slotVars

\* Processing has returned; the worker calls it again.
ProcessingReturn(w) ==
    /\ wk[w].pc = "done"
    /\ wk' = [wk EXCEPT ![w] = WkIdle]
    /\ ss' = [ss EXCEPT ![w] = SsIdle]
    /\ h_disp' = [h_disp EXCEPT ![w] = NoDisp]
    /\ UNCHANGED <<now, meta, updates, sess, received, ab, callsLeft, h_win, h_meta, h_enq,
                   description, buttons>>
    /\ UNCHANGED slotVars
    /\ UNCHANGED h_destroy

(***************************************************************************)
(* One worker dispatching claimed chains of one identity, for every bot    *)
(* description over two states and one command.                            *)
(***************************************************************************)
StateA == SessState(<<"a">>)
StateB == SessState(<<"b">>)

\* State "a" declares any handlers, state "b" a StateHandler only.
Descriptions ==
    {[Commands |-> cs, States |-> (StateA :> sa) @@ (StateB :> sb),
      InitHandler |-> ih, ErrorHandler |-> eh]
        : cs \in {<<>>} \cup {<<[Command |-> <<"start">>, Handler |-> hd]>> : hd \in BOOLEAN},
          sa \in [StateHandler : BOOLEAN, MessageHandler : BOOLEAN,
                  CallbackHandler : BOOLEAN, SentHandler : BOOLEAN],
          sb \in {[NoState EXCEPT !.StateHandler = TRUE]},
          ih \in BOOLEAN, eh \in BOOLEAN}

\* The callback payloads of a pressed button: none, not JSON, or the JSON
\* that callbackDataGen wrote for a state and an identifier.
Payloads ==
    {NoData, [fmt |-> "bad", s |-> <<>>, i |-> <<>>]}
    \cup {callbackDataGen(st, <<"1">>) : st \in NextStates}

\* The chains chainGet hands over: empty, one message (plain, a declared or
\* an undeclared command), or one callback.
ClaimedChains ==
    {EmptyChain}
    \cup {add(EmptyChain, <<MkUpdate(1, TRUE, FALSE, ReadyKey[1], ReadyKey[2],
                                     c[1], c[2], NoData, 1)>>)
            : c \in {<<<<>>, <<>>>>, <<<<"start">>, <<>>>>, <<<<"start">>, <<"x">>>>,
                     <<<<"help">>, <<>>>>}}
    \cup {add(EmptyChain, <<MkUpdate(1, FALSE, TRUE, ReadyKey[1], ReadyKey[2],
                                     <<>>, <<>>, p, 1)>>)
            : p \in Payloads}

InitDispatch ==
    /\ InitStore
    /\ description \in Descriptions
    /\ callsLeft = [w \in Workers |-> IF w = 1 THEN 1 ELSE 0]

NextDispatch ==
    \E w \in Workers :
        \/ \E uc \in ClaimedChains : ChainClaimed(w, uc)
        \/ sessionInit(w)
        \/ stateProcessing(w)
        \/ StateGet(w)
        \/ stateMessageProcessing(w)
        \/ stateInitProcessing(w)
        \/ stateCallbackProcessing(w)
        \/ ErrorHandler(w)
        \/ stateSwitch(w)
        \/ stateSetGet(w)
        \/ stateSetSave(w)
        \/ StateHandler(w)
        \/ SendMessage(w)
        \/ SentHandler(w)
        \/ sessDel(w)
        \/ sessDelMeta(w)
        \/ sessDelUpdates(w)
        \/ ProcessingReturn(w)

SpecDispatch == InitDispatch /\ [][NextDispatch]_vars

(***************************************************************************)
(* The dispatcher under fair scheduling: a worker that can take a step of  *)
(* Processing takes it. The descriptions are the ones with every entry     *)
(* handler, where state "a" may wait for input or lack a StateHandler.     *)
(***************************************************************************)
FairDescriptions ==
    {d \in Descriptions :
        /\ d.InitHandler
        /\ d.Commands # <<>> /\ d.Commands[1].Handler
        /\ d.States[StateA].CallbackHandler
        /\ d.States[StateA].SentHandler}

InitFair ==
    /\ InitStore
    /\ description \in FairDescriptions
    /\ callsLeft = [w \in Workers |-> IF w = 1 THEN 1 ELSE 0]

\* A step of worker w inside Processing.
ProcessingStep(w) ==
    \/ sessionInit(w)
    \/ stateProcessing(w)
    \/ StateGet(w)
    \/ stateMessageProcessing(w)
    \/ stateInitProcessing(w)
    \/ stateCallbackProcessing(w)
    \/ ErrorHandler(w)
    \/ stateSwitch(w)
    \/ stateSetGet(w)
    \/ stateSetSave(w)
    \/ StateHandler(w)
    \/ SendMessage(w)
    \/ SentHandler(w)
    \/ sessDel(w)
    \/ sessDelMeta(w)
    \/ sessDelUpdates(w)

FairDispatch ==
    /\ InitFair
    /\ [][NextDispatch]_vars
    /\ \A w \in Workers : WF_vars(ProcessingStep(w))

(***************************************************************************)
(* Slot operations, called by a handler that is running.                   *)
(***************************************************************************)
\* A handler of worker w has been called and has not returned.
HandlerRunning(w) ==
    \/ wk[w].pc \in {"StateHandler", "SentHandler", "ErrorHandler"}
    \/ wk[w].pc = "stateInitProcessing" /\ description.InitHandler

SessionKey(w) == <<ss[w].chatID, ss[w].userID>>

NoSession == "session does not exist"

\* One step of a slot operation: its locals, with the rest of the worker kept.
SlotStep(w, s) ==
    /\ so' = [so EXCEPT ![w] = s]
    /\ UNCHANGED <<now, meta, updates, received, ab, wk, callsLeft, h_win, h_meta, h_enq,
                   description, ss, h_disp, h_destroy, buttons>>

\* Mutant of SlotSaveGet: a missing session is taken for an empty record.
SlotSaveGet_Create(w, slot, data) ==
    /\ HandlerRunning(w)
    /\ so[w].pc = "idle"
    /\ LET d == IF SessionKey(w) \in DOMAIN sess THEN sess[SessionKey(w)] ELSE NoSessData
       IN  SlotStep(w, [SoIdle EXCEPT
                !.pc = "SlotSaveSave", !.op = "SlotSave", !.slot = slot, !.data = data,
                !.d = [d EXCEPT !.Slots = HSet(@, slot, gobEncode(data))]])
    /\ UNCHANGED <<sess, h_slots>>

\* SlotSave up to redis.sessSave: sessGet, the test for the session, the
\* encoding, and d.Slots[slot] = buf.Bytes().
SlotSaveGet(w, slot, data) ==
    /\ HandlerRunning(w)
    /\ so[w].pc = "idle"
    /\ IF SessionKey(w) \notin DOMAIN sess
       THEN SlotStep(w, [SoIdle EXCEPT !.op = "SlotSave", !.slot = slot, !.data = data,
                                       !.ret.err = NoSession])
       ELSE SlotStep(w, [SoIdle EXCEPT
                !.pc = "SlotSaveSave", !.op = "SlotSave", !.slot = slot, !.data = data,
                !.d = [sess[SessionKey(w)] EXCEPT !.Slots = HSet(@, slot, gobEncode(data))]])
    /\ UNCHANGED <<sess, h_slots>>

\* SlotSave: redis.sessSave.
SlotSaveSave(w) ==
    /\ so[w].pc = "SlotSaveSave"
    /\ sess' = HSet(sess, SessionKey(w), so[w].d)
    /\ h_slots' = [h_slots EXCEPT ![SessionKey(w)][so[w].slot] = <<so[w].data>>]
    /\ SlotStep(w, [so[w] EXCEPT !.pc = "idle", !.d = NoSessData])

\* SlotGet(slot, data): data is the destination, holding what the caller left.
SlotGet(w, slot, data) ==
    /\ HandlerRunning(w)
    /\ so[w].pc = "idle"
    /\ LET k == SessionKey(w)
           s == [SoIdle EXCEPT !.op = "SlotGet", !.slot = slot, !.data = data,
                               !.ret.data = data]
       IN  IF k \notin DOMAIN sess THEN SlotStep(w, [s EXCEPT !.ret.err = NoSession])
           ELSE IF slot \notin DOMAIN sess[k].Slots THEN SlotStep(w, s)
           ELSE SlotStep(w, [s EXCEPT !.ret.exists = TRUE,
                                      !.ret.data = gobDecode(sess[k].Slots[slot], data)])
    /\ UNCHANGED <<sess, h_slots>>

\* SlotDel up to redis.sessSave: sessGet, the test for the session, and
\* delete(d.Slots, slot).
SlotDelGet(w, slot) ==
    /\ HandlerRunning(w)
    /\ so[w].pc = "idle"
    /\ IF SessionKey(w) \notin DOMAIN sess
       THEN SlotStep(w, [SoIdle EXCEPT !.op = "SlotDel", !.slot = slot,
                                       !.ret.err = NoSession])
       ELSE SlotStep(w, [SoIdle EXCEPT
                !.pc = "SlotDelSave", !.op = "SlotDel", !.slot = slot,
                !.d = [sess[SessionKey(w)] EXCEPT !.Slots = HDel(@, slot)]])
    /\ UNCHANGED <<sess, h_slots>>

\* SlotDel: redis.sessSave.
SlotDelSave(w) ==
    /\ so[w].pc = "SlotDelSave"
    /\ sess' = HSet(sess, SessionKey(w), so[w].d)
    /\ h_slots' = [h_slots EXCEPT ![SessionKey(w)][so[w].slot] = <<>>]
    /\ SlotStep(w, [so[w] EXCEPT !.pc = "idle", !.d = NoSessData])

\* One worker dispatching messages for a description whose handlers call slot
\* operations: state "a" waits for a message, state "b" passes on.
SlotDescription ==
    [Commands |-> <<>>,
     States |-> (StateA :> [NoState EXCEPT !.StateHandler = TRUE, !.MessageHandler = TRUE,
                                          !.SentHandler = TRUE])
                @@ (StateB :> [NoState EXCEPT !.StateHandler = TRUE]),
     InitHandler |-> TRUE, ErrorHandler |-> TRUE]

InitSlots ==
    /\ InitStore
    /\ description = SlotDescription
    /\ callsLeft = [w \in Workers |-> IF w = 1 THEN 1 ELSE 0]

\* The chain the handlers of SlotDescription are reached by: a plain message.
SlotChains ==
    {add(EmptyChain, <<MkUpdate(1, TRUE, FALSE, ReadyKey[1], ReadyKey[2],
                                <<>>, <<>>, NoData, 1)>>)}

NextSlots ==
    \E w \in Workers :
        \/ \E uc \in SlotChains : ChainClaimed(w, uc)
        \/ sessionInit(w)
        \/ stateProcessing(w)
        \/ StateGet(w)
        \/ stateMessageProcessing(w)
        \/ stateInitProcessing(w)
        \/ ErrorHandler(w)
        \/ stateSwitch(w)
        \/ stateSetGet(w)
        \/ stateSetSave(w)
        \/ StateHandler(w)
        \/ SendMessage(w)
        \/ SentHandler(w)
        \/ sessDel(w)
        \/ sessDelMeta(w)
        \/ sessDelUpdates(w)
        \/ ProcessingReturn(w)
        \/ \E slot \in SlotNames, data \in SlotValues : SlotSaveGet(w, slot, data)
        \/ SlotSaveSave(w)
        \/ \E slot \in SlotNames, data \in SlotValues : SlotGet(w, slot, data)
        \/ \E slot \in SlotNames : SlotDelGet(w, slot)
        \/ SlotDelSave(w)

SpecSlots == InitSlots /\ [][NextSlots]_vars

(***************************************************************************)
(* Destroy beside the queue: two workers hold chains of one identity that  *)
(* chainGet handed them in successive windows, updates keep arriving, and  *)
(* the first worker calls Processing once more.                            *)
(***************************************************************************)
\* InitHandler, DestroyHandler and a state "a" that waits for a message.
DestroyDescription ==
    [Commands |-> <<>>,
     States |-> (StateA :> [NoState EXCEPT !.MessageHandler = TRUE]),
     InitHandler |-> TRUE, ErrorHandler |-> FALSE, DestroyHandler |-> TRUE]

HeldChain ==
    add(EmptyChain, <<MkUpdate(1, TRUE, FALSE, ReadyKey[1], ReadyKey[2],
                               <<>>, <<>>, NoData, 1)>>)

InitDestroy ==
    /\ buttons = {}
    /\ now = 0
    /\ meta = EmptyHash
    /\ updates = [k \in Keys |-> <<>>]
    /\ received = 0
    /\ ab = [a \in Absorbers |-> AbIdle]
    /\ h_win = [w \in Workers |-> NoWin]
    /\ h_meta = [k \in Keys |-> NoHist]
    /\ h_enq = {}
    /\ ss = [w \in Workers |-> SsIdle]
    /\ h_disp = [w \in Workers |-> NoDisp]
    /\ so = [w \in Workers |-> SoIdle]
    /\ h_slots = [k \in Keys |-> NoSlots]
    /\ description = DestroyDescription
    /\ callsLeft = [w \in Workers |-> IF w = 1 THEN MaxCalls ELSE 0]
    /\ \E second \in BOOLEAN :
         wk = [w \in Workers |->
                 IF w = 1 \/ second
                 THEN [WkIdle EXCEPT !.pc = "chainGot", !.uc = HeldChain]
                 ELSE WkIdle]
    /\ \E e \in BOOLEAN :
         /\ sess = IF e THEN HSet(EmptyHash, ReadyKey, NewData(StateA)) ELSE EmptyHash
         /\ h_destroy = [k \in Keys |-> [NoDestroy EXCEPT !.fresh = ~(e /\ k = ReadyKey)]]

\* One caller of UpdateAbsorb delivers plain messages of the identity.
NextDestroy ==
    \/ Tick
    \/ UpdateAbsorb(1, HeldChain.updates[1])
    \/ queueMetaAdd(1)
    \/ queueUpdateAdd(1)
    \/ \E w \in Workers :
        \/ queueMetasGet(w)
        \/ chainGetScan(w)
        \/ queueMetaDel(w)
        \/ queueUpdatesLLen(w)
        \/ queueUpdatesLPop(w)
        \/ chainGetAdd(w)
        \/ sessionInit(w)
        \/ stateProcessing(w)
        \/ StateGet(w)
        \/ stateMessageProcessing(w)
        \/ stateInitProcessing(w)
        \/ stateSwitch(w)
        \/ stateSetGet(w)
        \/ stateSetSave(w)
        \/ sessDel(w)
        \/ sessDelMeta(w)
        \/ sessDelUpdates(w)
        \/ ProcessingReturn(w)

SpecDestroy == InitDestroy /\ [][NextDestroy]_vars

(***************************************************************************)
(* Processing from chainGet to its return: two callers on a store where    *)
(* each identity has no queue, a queue that is ready or one still waiting. *)
(***************************************************************************)
QueueStates == {"none", "ready", "waiting"}

InitProcessing ==
    /\ buttons = {}
    /\ description = NoDescription
    /\ ss = [w \in Workers |-> SsIdle]
    /\ h_disp = [w \in Workers |-> NoDisp]
    /\ so = [w \in Workers |-> SoIdle]
    /\ h_slots = [k \in Keys |-> NoSlots]
    /\ h_destroy = [k \in Keys |-> NoDestroy]
    /\ now = WaitInterval + 1
    /\ sess = EmptyHash
    /\ received = MaxUpdates
    /\ ab = [a \in Absorbers |-> AbIdle]
    /\ wk = [w \in Workers |-> WkIdle]
    /\ callsLeft = [w \in Workers |-> 1]
    /\ h_win = [w \in Workers |-> NoWin]
    /\ h_meta = [k \in Keys |-> NoHist]
    /\ \E q \in [Keys -> QueueStates] :
         /\ updates = [k \in Keys |->
               IF q[k] = "none" THEN <<>>
               ELSE <<MkUpdate(k[2], TRUE, FALSE, k[1], k[2], <<>>, <<>>, NoData, 1)>>]
         /\ meta = [k \in {x \in Keys : q[x] # "none"} |->
               IF q[k] = "ready" THEN addWaitTill(0) ELSE addWaitTill(now)]
         /\ h_enq = UNION {{updates[k][i] : i \in DOMAIN updates[k]} : k \in Keys}

NextProcessing ==
    \E w \in Workers :
        \/ queueMetasGet(w)
        \/ chainGetScan(w)
        \/ queueMetaDel(w)
        \/ queueUpdatesLLen(w)
        \/ queueUpdatesLPop(w)
        \/ chainGetAdd(w)
        \/ sessionInit(w)
        \/ stateProcessing(w)
        \/ StateGet(w)
        \/ stateMessageProcessing(w)
        \/ stateInitProcessing(w)
        \/ ProcessingReturn(w)

SpecProcessing == InitProcessing /\ [][NextProcessing]_vars

(***************************************************************************)
(* The dispatcher on a store whose calls can fail: stateSet and destroy    *)
(* return the error of the first store call that fails.                    *)
(***************************************************************************)
\* stateSet when redis.sessGet returns an error: nothing is written.
stateSetGetError(w) ==
    /\ wk[w].pc = "stateSetGet"
    /\ Return(w, "store error", h_disp[w])
    /\ UNCHANGED <<now, meta, updates, sess, received, ab, callsLeft, h_win, h_meta, h_enq,
                   description, buttons>>
    /\ UNCHANGED slotVars
    /\ UNCHANGED h_destroy

\* Mutant of stateSetSaveError: the error of sessSave is dropped and
\* stateSwitch goes on to the StateHandler.
stateSetSaveError_Ignored(w) ==
    /\ wk[w].pc = "stateSetSave"
    /\ IF ~description.States[ss[w].newState].StateHandler
       THEN Return(w, "nil", h_disp[w])
       ELSE Step(w, "StateHandler", [ss[w] EXCEPT !.d = NoSessData], h_disp[w])
    /\ UNCHANGED <<now, meta, updates, sess, received, ab, callsLeft, h_win, h_meta, h_enq,
                   description, buttons>>
    /\ UNCHANGED slotVars
    /\ UNCHANGED h_destroy

\* stateSet when redis.sessSave returns an error: the record is not written.
stateSetSaveError(w) ==
    /\ wk[w].pc = "stateSetSave"
    /\ Return(w, "store error", h_disp[w])
    /\ UNCHANGED <<now, meta, updates, sess, received, ab, callsLeft, h_win, h_meta, h_enq,
                   description, buttons>>
    /\ UNCHANGED slotVars
    /\ UNCHANGED h_destroy

\* redis.sessDel when one of its three store calls returns an error: the
\* calls before it have taken effect, the ones after it are not made.
sessDelError(w) ==
    /\ wk[w].pc \in {"sessDel", "sessDelMeta", "sessDelUpdates"}
    /\ Return(w, "store error", [h_disp[w] EXCEPT !.began = NoBegan])
    /\ UNCHANGED <<now, meta, updates, sess, received, ab, callsLeft, h_win, h_meta, h_enq,
                   description, buttons>>
    /\ UNCHANGED slotVars
    /\ UNCHANGED h_destroy

NextStoreErrors ==
    \/ NextDispatch
    \/ \E w \in Workers :
        \/ stateSetGetError(w)
        \/ stateSetSaveError(w)
        \/ sessDelError(w)

SpecStoreErrors == InitFair /\ [][NextStoreErrors]_vars

(***************************************************************************)
(* Processing on a store whose calls can fail during chainGet.             *)
(***************************************************************************)
\* chainGet when redis.queueMetasGet returns an error.
queueMetasGetError(w) ==
    /\ wk[w].pc = "idle"
    /\ callsLeft[w] > 0
    /\ callsLeft' = [callsLeft EXCEPT ![w] = @ - 1]
    /\ wk' = [wk EXCEPT ![w] = [WkIdle EXCEPT !.pc = "chainGot", !.err = "store error"]]
    /\ UNCHANGED <<now, meta, updates, sess, received, ab, h_win, h_meta, h_enq>>
    /\ UNCHANGED dispVars

\* chainGet when redis.queueMetaDel returns an error: no meta is deleted.
queueMetaDelError(w) ==
    /\ wk[w].pc = "metaDel"
    /\ wk' = [wk EXCEPT ![w].pc = "chainGot", ![w].uc = EmptyChain, ![w].err = "store error"]
    /\ UNCHANGED <<now, meta, updates, sess, received, ab, callsLeft, h_win, h_meta, h_enq>>
    /\ UNCHANGED dispVars

\* chainGet when LLen or an LPop of redis.queueUpdatesGet returns an error:
\* the updates popped so far are dropped with the error.
queueUpdatesGetError(w) ==
    /\ wk[w].pc \in {"llen", "lpop"}
    /\ wk' = [wk EXCEPT ![w].pc = "chainGot", ![w].uc = EmptyChain, ![w].err = "store error"]
    /\ UNCHANGED <<now, meta, updates, sess, received, ab, callsLeft, h_win, h_meta, h_enq>>
    /\ UNCHANGED dispVars

\* chainGet when json.Unmarshal of a popped element returns an error: the
\* element has left the list.
queueUpdatesGetDecodeError(w) ==
    /\ wk[w].pc = "lpop"
    /\ updates[<<wk[w].m.chatID, wk[w].m.userID>>] # <<>>
    /\ updates' = [updates EXCEPT ![<<wk[w].m.chatID, wk[w].m.userID>>] = Tail(@)]
    /\ wk' = [wk EXCEPT ![w].pc = "chainGot", ![w].uc = EmptyChain, ![w].err = "decode error"]
    /\ UNCHANGED <<now, meta, sess, received, ab, callsLeft, h_win, h_meta, h_enq>>
    /\ UNCHANGED dispVars

NextScanErrors ==
    \/ NextProcessing
    \/ \E w \in Workers :
        \/ queueMetasGetError(w)
        \/ queueMetaDelError(w)
        \/ queueUpdatesGetError(w)
        \/ queueUpdatesGetDecodeError(w)

SpecScanErrors == InitProcessing /\ [][NextScanErrors]_vars

(***************************************************************************)
(* The queue with workers that call Processing again and again.            *)
(***************************************************************************)
\* The plain messages among the incoming updates.
IncomingMessages == {u \in Incoming : u.Message}

\* The caller's loop around Processing: the worker calls again.
ProcessingAgain(w) ==
    /\ wk[w].pc = "idle"
    /\ callsLeft[w] = 0
    /\ callsLeft' = [callsLeft EXCEPT ![w] = MaxCalls]
    /\ UNCHANGED <<now, meta, updates, sess, received, ab, wk, h_win, h_meta, h_enq>>
    /\ UNCHANGED dispVars

\* UpdateAbsorb of a message at a time after which the clock can still pass
\* the deadline it computes.
UpdateAbsorbEarly(a) ==
    /\ addWaitTill(now) < MaxTime
    /\ \E tmpl \in IncomingMessages : UpdateAbsorb(a, tmpl)

AbsorbStep(a) == queueMetaAdd(a) \/ queueUpdateAdd(a)

WorkerStep(w) ==
    \/ queueMetasGet(w)
    \/ chainGetScan(w)
    \/ queueMetaDel(w)
    \/ queueUpdatesLLen(w)
    \/ queueUpdatesLPop(w)
    \/ chainGetAdd(w)
    \/ chainGetReturn(w)
    \/ ProcessingAgain(w)

NextDelivery ==
    \/ Tick
    \/ \E a \in Absorbers : UpdateAbsorbEarly(a) \/ AbsorbStep(a)
    \/ \E w \in Workers : WorkerStep(w)

\* Time advances, every enqueue that has begun completes and every worker
\* keeps calling.
FairDelivery ==
    /\ InitQueue
    /\ [][NextDelivery]_vars
    /\ WF_vars(Tick)
    /\ \A a \in Absorbers : WF_vars(AbsorbStep(a))
    /\ \A w \in Workers : WF_vars(WorkerStep(w))

(***************************************************************************)
(* Two callers of Processing and one caller of UpdateAbsorb on one         *)
(* identity, from the empty store.                                         *)
(***************************************************************************)
InitExclusion ==
    /\ InitStore
    /\ description = DestroyDescription
    /\ callsLeft = [w \in Workers |-> MaxCalls]

SpecExclusion == InitExclusion /\ [][NextDestroy]_vars

(***************************************************************************)
(* Two identities on one store: one caller of UpdateAbsorb, a worker that  *)
(* runs Processing with handlers that use slots, and a second caller of    *)
(* chainGet.                                                               *)
(***************************************************************************)
\* InitHandler and a state "a" whose StateHandler prepares the message.
IsolationDescription ==
    [Commands |-> <<>>,
     States |-> (StateA :> [NoState EXCEPT !.StateHandler = TRUE]),
     InitHandler |-> TRUE, ErrorHandler |-> FALSE]

\* The other identity of the store.
OtherKey == <<1, 2>>

\* The first identity has a ready queue of one message and no session; the
\* other has a session and a queue that still waits; one more update is to
\* arrive.
InitIsolation ==
    /\ buttons = {}
    /\ description = IsolationDescription
    /\ ss = [w \in Workers |-> SsIdle]
    /\ h_disp = [w \in Workers |-> NoDisp]
    /\ so = [w \in Workers |-> SoIdle]
    /\ h_slots = [k \in Keys |-> NoSlots]
    /\ h_destroy = [k \in Keys |-> NoDestroy]
    /\ now = WaitInterval + 1
    /\ sess = HSet(EmptyHash, OtherKey, NewData(StateA))
    /\ received = MaxUpdates - 1
    /\ ab = [a \in Absorbers |-> AbIdle]
    /\ wk = [w \in Workers |-> WkIdle]
    /\ callsLeft = [w \in Workers |-> 1]
    /\ h_win = [w \in Workers |-> NoWin]
    /\ h_meta = [k \in Keys |-> NoHist]
    /\ updates = [k \in Keys |-> <<MkUpdate(k[2], TRUE, FALSE, k[1], k[2], <<>>, <<>>, NoData, 1)>>]
    /\ meta = [k \in Keys |-> IF k = ReadyKey THEN addWaitTill(0) ELSE addWaitTill(now)]
    /\ h_enq = UNION {{updates[k][i] : i \in DOMAIN updates[k]} : k \in Keys}

\* The update that is still to arrive is a message of the other identity.
NextIsolation ==
    \/ \E tmpl \in {u \in IncomingMessages : u.user = OtherKey[2]} : UpdateAbsorb(1, tmpl)
    \/ queueMetaAdd(1)
    \/ queueUpdateAdd(1)
    \/ \E w \in Workers :
        \/ queueMetasGet(w)
        \/ chainGetScan(w)
        \/ queueMetaDel(w)
        \/ queueUpdatesLLen(w)
        \/ queueUpdatesLPop(w)
        \/ chainGetAdd(w)
    \/ chainGetReturn(2)
    \/ sessionInit(1)
    \/ stateProcessing(1)
    \/ StateGet(1)
    \/ stateMessageProcessing(1)
    \/ stateInitProcessing(1)
    \/ stateSwitch(1)
    \/ stateSetGet(1)
    \/ stateSetSave(1)
    \/ StateHandler(1)
    \/ SendMessage(1)
    \/ sessDel(1)
    \/ sessDelMeta(1)
    \/ sessDelUpdates(1)
    \/ ProcessingReturn(1)
    \/ \E slot \in SlotNames, data \in SlotValues : SlotSaveGet(1, slot, data)
    \/ SlotSaveSave(1)
    \/ \E slot \in SlotNames : SlotDelGet(1, slot)
    \/ SlotDelSave(1)

SpecIsolation == InitIsolation /\ [][NextIsolation]_vars

(***************************************************************************)
(* Buttons: one worker that sends messages with buttons and processes the  *)
(* clicks on them.                                                         *)
(***************************************************************************)
\* InitHandler and two states that prepare a message and take clicks.
CodecDescription ==
    [Commands |-> <<>>,
     States |-> (StateA :> [NoState EXCEPT !.StateHandler = TRUE, !.CallbackHandler = TRUE])
                @@ (StateB :> [NoState EXCEPT !.StateHandler = TRUE, !.CallbackHandler = TRUE]),
     InitHandler |-> TRUE, ErrorHandler |-> FALSE]

InitCodec ==
    /\ InitStore
    /\ description = CodecDescription
    /\ callsLeft = [w \in Workers |-> IF w = 1 THEN 1 ELSE 0]

\* The bot's own call of SendMessage with ButtonState break and destroy:
\* the first message of the chat, with a row of buttons for each.
SendMessageReserved ==
    /\ buttons = {}
    /\ buttons' = {Button(ReadyKey[1], state, identifier) :
                      state \in {sessionBreak, sessionDestroy}, identifier \in ButtonIdentifiers}
    /\ UNCHANGED <<now, meta, updates, sess, received, ab, wk, callsLeft, h_win, h_meta, h_enq,
                   description, ss, h_disp, so, h_slots, h_destroy>>

\* The chain of one click on the button b.
ClickChain(b) ==
    add(EmptyChain, <<MkUpdate(1, FALSE, TRUE, b.chatID, ReadyKey[2], <<>>, <<>>, b.data,
                               NewMessageID)>>)

NextCodec ==
    \/ SendMessageReserved
    \/ \E w \in Workers :
        \/ ChainClaimed(w, HeldChain)
        \/ \E b \in buttons : ChainClaimed(w, ClickChain(b))
        \/ sessionInit(w)
        \/ stateProcessing(w)
        \/ StateGet(w)
        \/ stateMessageProcessing(w)
        \/ stateInitProcessing(w)
        \/ stateCallbackProcessing(w)
        \/ stateSwitch(w)
        \/ stateSetGet(w)
        \/ stateSetSave(w)
        \/ StateHandler(w)
        \/ SendMessageButtons(w)
        \/ sessDel(w)
        \/ sessDelMeta(w)
        \/ sessDelUpdates(w)
        \/ ProcessingReturn(w)

SpecCodec == InitCodec /\ [][NextCodec]_vars

(***************************************************************************)
(* State names that look like the reserved states: a bot that declares a   *)
(* state for each of them, a handler that has returned one of them and     *)
(* clicks on the buttons sent for them.                                    *)
(***************************************************************************)
\* The empty name, the text of the destroy state, and two plain names.
LookalikeNames == {<<>>, <<"internal:destroy">>} \cup StateNames

LookalikeDescription ==
    [Commands |-> <<>>,
     States |-> [s \in {SessState(n) : n \in LookalikeNames} |->
                    [NoState EXCEPT !.CallbackHandler = TRUE]],
     InitHandler |-> FALSE, ErrorHandler |-> FALSE]

\* The first worker is in a cycle whose handler has returned SessState(n);
\* the chat holds a message with a button for every declared state.
InitLookalike ==
    /\ now = 0
    /\ meta = EmptyHash
    /\ updates = [k \in Keys |-> <<>>]
    /\ sess = EmptyHash
    /\ received = 0
    /\ ab = [a \in Absorbers |-> AbIdle]
    /\ h_win = [w \in Workers |-> NoWin]
    /\ h_meta = [k \in Keys |-> NoHist]
    /\ h_enq = {}
    /\ h_disp = [w \in Workers |-> NoDisp]
    /\ so = [w \in Workers |-> SoIdle]
    /\ h_slots = [k \in Keys |-> NoSlots]
    /\ h_destroy = [k \in Keys |-> NoDestroy]
    /\ description = LookalikeDescription
    /\ callsLeft = [w \in Workers |-> IF w = 1 THEN 1 ELSE 0]
    /\ buttons = {Button(ReadyKey[1], SessState(n), <<"1">>) : n \in LookalikeNames}
    /\ \E n \in LookalikeNames :
         /\ wk = [w \in Workers |->
                    IF w = 1 THEN [WkIdle EXCEPT !.pc = "stateSwitch", !.uc = HeldChain]
                    ELSE WkIdle]
         /\ ss = [w \in Workers |->
                    IF w = 1 THEN [SsIdle EXCEPT !.chatID = ReadyKey[1], !.userID = ReadyKey[2],
                                                 !.newState = SessState(n)]
                    ELSE SsIdle]

NextLookalike ==
    \E w \in Workers :
        \/ \E b \in buttons : ChainClaimed(w, ClickChain(b))
        \/ sessionInit(w)
        \/ stateProcessing(w)
        \/ stateCallbackProcessing(w)
        \/ stateSwitch(w)
        \/ stateSetGet(w)
        \/ stateSetSave(w)
        \/ sessDel(w)
        \/ sessDelMeta(w)
        \/ sessDelUpdates(w)
        \/ ProcessingReturn(w)

SpecLookalike == InitLookalike /\ [][NextLookalike]_vars

(***************************************************************************)
(* Claims                                                                  *)
(***************************************************************************)
Positions == 1..(MaxLen + MaxUpdates)

IsPrefix(s, t) == Len(s) <= Len(t) /\ \A i \in 1..Len(s) : s[i] = t[i]

\* How many times update e is in the chains the workers hold as results.
ReturnedTimes(e) ==
    Cardinality({p \in Workers \X Positions :
                    /\ p[2] <= Len(wk[p[1]].uc.updates)
                    /\ wk[p[1]].uc.updates[p[2]] = e})

\* How many times update e was popped from its list by the workers.
DrainedTimes(e) ==
    Cardinality({p \in Workers \X Positions :
                    /\ p[2] <= Len(wk[p[1]].updates)
                    /\ wk[p[1]].updates[p[2]] = e})

AllReturned == \A w \in Workers : wk[w].pc = "chainGot"

ExactlyOneChain ==
    /\ Cardinality({w \in Workers : wk[w].uc.updates # <<>>}) = 1
    /\ \A w \in Workers : wk[w].err = "nil"

\* C1 as stated: N chainGet calls race for one ready queue while no enqueue
\* runs; exactly one returns a non-empty chain, the others return an empty
\* chain without error, and every buffered update is returned exactly once
\* in total.
C1_Original ==
    AllReturned =>
        /\ ExactlyOneChain
        /\ \A e \in h_enq : updateIDsGet(e) = ReadyKey => ReturnedTimes(e) = 1

\* C1 (amended): N chainGet calls race for one ready queue while no enqueue
\* runs; exactly one returns a non-empty chain, the others return an empty
\* chain without error, every buffered update is popped from the buffer
\* exactly once, and every buffered update of the first buffered update's
\* type is returned exactly once in total; buffered updates of the other
\* type are dropped by uc.add and returned by no worker.  The queue of any
\* other identity is left as it was.
C1_ClaimExclusive ==
    AllReturned =>
        /\ ExactlyOneChain
        /\ \E w \in Workers : h_win[w].won
        /\ \A w \in Workers : h_win[w].won => h_win[w].buf # <<>>
        /\ \A w \in Workers : (h_win[w].won /\ h_win[w].buf # <<>>) =>
             \A e \in h_enq :
                IF updateIDsGet(e) = ReadyKey
                THEN /\ DrainedTimes(e) = 1
                     /\ ReturnedTimes(e) =
                          (IF updateTypeEltGet(e) = updateTypeEltGet(h_win[w].buf[1])
                           THEN 1 ELSE 0)
                     /\ updates[ReadyKey] = <<>>
                ELSE /\ DrainedTimes(e) = 0
                     /\ updates[updateIDsGet(e)] = <<e>>

\* Every worker has returned, one of them won a buffer of two or more
\* updates and another lost the delete race.
C1_Witness ==
    /\ AllReturned
    /\ \E w, v \in Workers :
         /\ h_win[w].won /\ Len(h_win[w].buf) >= 2
         /\ h_win[v].lost /\ ~h_win[v].won

\* C2 as stated: a chainGet wins the claim (its HDel returns >= 1) only at a
\* time strictly after the waitTill the meta holds at the moment of the
\* delete.
C2_ClaimOnlyAfterWaitTill ==
    \A w \in Workers : h_win[w].won => After(h_win[w].at, h_win[w].waitTill)

NoEnqueueInFlight(k) ==
    \A a \in Absorbers : ab[a].pc # "idle" => updateIDsGet(ab[a].update) # k

\* C3 as stated: once all enqueue calls for an identity have returned, the
\* identity has one meta and its waitTill is the time of the last enqueue
\* call plus waitInterval, in every interleaving of the calls.
C3_Original ==
    \A k \in Keys :
        (NoEnqueueInFlight(k) /\ h_meta[k].called) =>
            /\ k \in DOMAIN meta
            /\ meta[k] = h_meta[k].lastCall + WaitInterval

\* C3 (amended): once all enqueue calls for an identity have returned, the
\* identity has one meta and its waitTill is (the time read by the call whose
\* meta write was applied last) + waitInterval; that is the time of the last
\* call + waitInterval whenever the last call began after every earlier call
\* had returned.  The first enqueue creates the meta.
C3_SlidingWindow ==
    \A k \in Keys :
        (NoEnqueueInFlight(k) /\ h_meta[k].called) =>
            /\ k \in DOMAIN meta
            /\ meta[k] = h_meta[k].lastWrite + WaitInterval
            /\ ~h_meta[k].overlapped => meta[k] = h_meta[k].lastCall + WaitInterval

\* Two enqueue calls for one identity, the second begun at a later time and
\* after the first had returned: the meta was refreshed.
C3_Witness ==
    \E k \in Keys :
        /\ NoEnqueueInFlight(k) /\ h_meta[k].called
        /\ ~h_meta[k].overlapped
        /\ Len(updates[k]) >= 2
        /\ h_meta[k].lastCall > 0
        /\ meta[k] = h_meta[k].lastCall + WaitInterval

\* C4 as stated: a chainGet that won the claim returns, without error, every
\* update that was in the buffer when the claim was won, in enqueue order,
\* also when enqueues or another claim interleave with the drain.
C4_WholeDrainInOrder ==
    \A w \in Workers :
        (wk[w].pc = "chainGot" /\ h_win[w].won) =>
            /\ wk[w].err = "nil"
            /\ IsPrefix(h_win[w].buf, wk[w].updates)

Classifiable(in) == SelectSeq(in, LAMBDA u : updateTypeEltGet(u) # UpdateTypeUnknown)

OfType(in, t) == SelectSeq(in, LAMBDA u : updateTypeEltGet(u) = t)

\* C5: the chain built by UpdateChain.add has the type of the first
\* classifiable update of the input (none when there is no such update) and
\* holds exactly the input updates of that type, in input order.
C5_ChainHomogeneous ==
    \A w \in Workers :
        (wk[w].pc = "chainGot" /\ wk[w].err = "nil") =>
            LET in == wk[w].updates
                c == Classifiable(in)
                T == IF c = <<>> THEN UpdateTypeNone ELSE updateTypeEltGet(c[1])
            IN  /\ wk[w].uc.updateType = T
                /\ wk[w].uc.updates = OfType(in, T)

\* add was given [msg, msg, callback]: the chain is of type message and
\* holds the two messages.
C5_Witness ==
    \E w \in Workers :
        /\ wk[w].pc = "chainGot"
        /\ Len(wk[w].updates) = 3
        /\ updateTypeEltGet(wk[w].updates[1]) = UpdateTypeMessage
        /\ updateTypeEltGet(wk[w].updates[2]) = UpdateTypeMessage
        /\ updateTypeEltGet(wk[w].updates[3]) = UpdateTypeCallback
        /\ wk[w].uc.updateType = UpdateTypeMessage
        /\ Len(wk[w].uc.updates) = 2

FirstUpdate(w) == wk[w].uc.updates[1]

CurrentRec(w) ==
    IF <<ss[w].chatID, ss[w].userID>> \in DOMAIN sess
    THEN <<sess[<<ss[w].chatID, ss[w].userID>>]>> ELSE <<>>

\* Worker w processes a chain of type t and stateProcessing has routed it.
Routes(w, t) ==
    /\ wk[w].pc \in {"StateGet", "stateMessageProcessing", "stateInitProcessing",
                     "stateCallbackProcessing", "ErrorHandler", "stateSwitch",
                     "stateSetGet", "stateSetSave", "StateHandler", "SendMessage",
                     "SentHandler", "sessDel", "sessDelMeta", "sessDelUpdates", "done"}
    /\ Len(wk[w].uc.updates) > 0
    /\ wk[w].uc.updateType = t

Finished(w, t) == Routes(w, t) /\ wk[w].pc = "done"

\* The first update names a command the description declares (with a
\* handler, or with or without one).
DeclaredCommand(w, withHandler) ==
    /\ Len(FirstUpdate(w).cmd) > 0
    /\ \E i \in DOMAIN description.Commands :
        /\ description.Commands[i].Command = FirstUpdate(w).cmd
        /\ withHandler => description.Commands[i].Handler

\* The entry handler's NextState went to the cycle's first stateSwitch.
AppliedNextState(w) ==
    /\ h_disp[w].cnt["stateSwitch"] = 0 =>
        /\ wk[w].pc = "stateSwitch"
        /\ ss[w].newState = h_disp[w].entry.ns
    /\ h_disp[w].cnt["stateSwitch"] > 0 => h_disp[w].sw0.st = h_disp[w].entry.ns

PriorMessageID(w) ==
    IF h_disp[w].cnt["stateSwitch"] = 0 THEN ss[w].messageID ELSE h_disp[w].sw0.mid

OnlyEntry(w, kind) ==
    \A o \in {"Command", "Init", "Message", "Callback"} :
        h_disp[w].cnt[o] = IF o = kind THEN 1 ELSE 0

NoHandler(w) ==
    \A o \in {"Command", "Init", "Message", "Callback", "Error", "State", "Sent"} :
        h_disp[w].cnt[o] = 0

SessionUntouched(w) ==
    /\ h_disp[w].cnt["sessSave"] = 0
    /\ h_disp[w].cnt["sessDel"] = 0
    /\ CurrentRec(w) = h_disp[w].before

\* C7 A message chain whose first update is a declared command with a handler:
\* the command handler is called exactly once, with the command's name and
\* argument text; when it returns without error its NextState goes to the
\* cycle's first stateSwitch with prior message id 0; no init, message or
\* callback handler is called, with or without a session, in any state.
C7_CommandPreempts ==
    \A w \in Workers :
        (Routes(w, UpdateTypeMessage) /\ DeclaredCommand(w, TRUE)) =>
            /\ OnlyEntry(w, "Command")
            /\ h_disp[w].entry.kind = "Command"
            /\ h_disp[w].entry.a = FirstUpdate(w).cmd
            /\ h_disp[w].entry.b = FirstUpdate(w).args
            /\ ~h_disp[w].entry.err => (AppliedNextState(w) /\ PriorMessageID(w) = 0)

C7_Witness ==
    \E w \in Workers :
        /\ Finished(w, UpdateTypeMessage) /\ DeclaredCommand(w, TRUE)
        /\ FirstUpdate(w).args # <<>>
        /\ h_disp[w].before # <<>>
        /\ MessageHandler(h_disp[w].before[1].State)
        /\ h_disp[w].cnt["Command"] = 1
        /\ ~h_disp[w].entry.err
        /\ h_disp[w].entry.ns = StateB
        /\ h_disp[w].sw0 = [st |-> StateB, mid |-> 0]

\* C8 A message or callback chain whose first update is no declared command,
\* for an identity without a session record, with an InitHandler: when the
\* cycle ends the InitHandler was called exactly once, no message or callback
\* handler was, and its NextState went to stateSwitch.
C8_InitRouting ==
    \A w \in Workers :
        /\ Finished(w, UpdateTypeMessage) \/ Finished(w, UpdateTypeCallback)
        /\ ~DeclaredCommand(w, FALSE)
        /\ h_disp[w].before = <<>>
        /\ description.InitHandler
        => /\ OnlyEntry(w, "Init")
           /\ ~h_disp[w].entry.err => AppliedNextState(w)

\* C9 A message chain whose first update is no declared command, with a
\* session in state S: if S has a MessageHandler it is called exactly once
\* and, when it returns without error, its NextState goes to stateSwitch; if
\* S has none the cycle ends without error, no handler was called, nothing
\* was sent and the session record is what it was.
C9_MessageRouting ==
    \A w \in Workers :
        /\ Finished(w, UpdateTypeMessage)
        /\ ~DeclaredCommand(w, FALSE)
        /\ h_disp[w].before # <<>>
        => LET S == h_disp[w].before[1].State
           IN  /\ S \in DOMAIN description.States
               /\ description.States[S].MessageHandler =>
                    /\ OnlyEntry(w, "Message")
                    /\ h_disp[w].entry.kind = "Message"
                    /\ h_disp[w].entry.st = S
                    /\ ~h_disp[w].entry.err => AppliedNextState(w)
               /\ ~description.States[S].MessageHandler =>
                    /\ ss[w].ret = "nil"
                    /\ NoHandler(w)
                    /\ h_disp[w].cnt["SendMessage"] = 0
                    /\ SessionUntouched(w)

C9_Witness ==
    \E w \in Workers :
        /\ Finished(w, UpdateTypeMessage)
        /\ ~DeclaredCommand(w, FALSE)
        /\ h_disp[w].before # <<>>
        /\ description.States[h_disp[w].before[1].State].MessageHandler
        /\ h_disp[w].cnt["Message"] = 1
        /\ ~h_disp[w].entry.err
        /\ h_disp[w].entry.ns = StateB
        /\ h_disp[w].sw0.st = StateB
        /\ CurrentRec(w) # h_disp[w].before

SwitchStep(w) == wk[w].pc = "stateSwitch" /\ wk'[w] # wk[w]

\* In the step no handler is called, nothing is sent and the store is not
\* written.
StepCallsNothing(w) ==
    /\ \A o \in Ops \ {"stateSwitch", "lookup"} : h_disp'[w].cnt[o] = h_disp[w].cnt[o]
    /\ h_disp'[w].sendMids = h_disp[w].sendMids
    /\ sess' = sess
    /\ meta' = meta
    /\ updates' = updates

\* C11 stateSwitch called with the break state returns nil in that step,
\* without entering another stateSwitch, without calling a handler, sending
\* a message or writing the store: the session record is what it was.
C11_BreakNoOp ==
    [][\A w \in Workers :
        (SwitchStep(w) /\ ss[w].newState = SessStateBreak) =>
            /\ wk'[w].pc = "done"
            /\ ss'[w].ret = "nil"
            /\ StepCallsNothing(w)
            /\ h_disp'[w].cnt["lookup"] = h_disp[w].cnt["lookup"]]_vars

C11_Witness ==
    \E w \in Workers :
        /\ wk[w].pc = "done"
        /\ ss[w].ret = "nil"
        /\ h_disp[w].cnt["stateSwitch"] = 1
        /\ h_disp[w].sw0.st = SessStateBreak
        /\ h_disp[w].entry.kind = "Message"
        /\ h_disp[w].before # <<>>
        /\ CurrentRec(w) = h_disp[w].before

\* C12 stateSwitch called with a state that is neither reserved nor a key of
\* description.States returns ErrDescriptionStateMissing in that step, without
\* calling a handler, sending a message or writing the store: the record
\* keeps what the cycle's last stateSet wrote.
C12_UndeclaredFatal ==
    [][\A w \in Workers :
        (/\ SwitchStep(w)
         /\ ss[w].newState \notin {SessStateBreak, SessStateDestroy}
         /\ ss[w].newState \notin DOMAIN description.States) =>
            /\ wk'[w].pc = "done"
            /\ ss'[w].ret = "ErrDescriptionStateMissing"
            /\ StepCallsNothing(w)]_vars

C12_Witness ==
    \E w \in Workers :
        /\ wk[w].pc = "done"
        /\ ss[w].ret = "ErrDescriptionStateMissing"
        /\ h_disp[w].cnt["stateSwitch"] = 2
        /\ h_disp[w].cnt["sessSave"] = 1
        /\ h_disp[w].before = <<>>
        /\ CurrentRec(w) = <<NewData(StateB)>>

\* The latest stateSwitch of worker w has set a state that declares a
\* MessageHandler.
Waits(w) ==
    /\ h_disp[w].last.st # <<>>
    /\ h_disp[w].last.st[1] \in DOMAIN description.States
    /\ description.States[h_disp[w].last.st[1]].MessageHandler

\* Its StateHandler returned an error.
StateHandlerFailed(w) ==
    h_disp[w].last.res # <<>> /\ h_disp[w].last.res[1].err

\* The stateSwitch that set the state is still running or has ended the cycle.
InSwitch(w) ==
    wk[w].pc \in {"stateSetGet", "stateSetSave", "StateHandler", "SendMessage",
                  "SentHandler", "done"}

PersistedLast(w) ==
    wk[w].pc \in {"StateHandler", "SendMessage", "SentHandler", "done"}
        => CurrentRec(w) # <<>> /\ CurrentRec(w)[1].State = h_disp[w].last.st[1]

\* C13 as stated: after stateSwitch entered a state with a MessageHandler no
\* further stateSwitch is called in the cycle and that state stays persisted.
C13_Original ==
    \A w \in Workers :
        Waits(w) => (wk[w].pc \in {"ErrorHandler"} \cup
                        {"stateSetGet", "stateSetSave", "StateHandler", "SendMessage",
                         "SentHandler", "done"}
                     /\ (wk[w].pc # "ErrorHandler" => PersistedLast(w)))

\* C13 After stateSwitch entered a state with a MessageHandler whose
\* StateHandler is absent or returns without error, the cycle ends in that
\* stateSwitch, after the send and the SentHandler, with no further
\* stateSwitch and with that state persisted, whatever NextState was
\* returned; an error of the StateHandler ends the cycle there too unless an
\* ErrorHandler is defined, whose NextState stateSwitch then enters.
C13_WaitsForInput ==
    \A w \in Workers :
        /\ (Waits(w) /\ ~StateHandlerFailed(w)) => (InSwitch(w) /\ PersistedLast(w))
        /\ (Waits(w) /\ StateHandlerFailed(w) /\ ~description.ErrorHandler) =>
                (wk[w].pc = "done" /\ PersistedLast(w))
        /\ (Waits(w) /\ StateHandlerFailed(w) /\ description.ErrorHandler) =>
                (wk[w].pc = "ErrorHandler" \/ h_disp[w].cnt["Error"] > 0)

C13_Witness ==
    \E w \in Workers :
        /\ wk[w].pc = "done"
        /\ ss[w].ret = "nil"
        /\ Waits(w)
        /\ h_disp[w].last.st = <<StateA>>
        /\ h_disp[w].last.res = <<[NextState |-> SessStateDestroy, err |-> FALSE]>>
        /\ h_disp[w].cnt["SendMessage"] = 1
        /\ h_disp[w].cnt["Sent"] = 1
        /\ h_disp[w].cnt["stateSwitch"] = 1
        /\ CurrentRec(w) = <<NewData(StateA)>>

\* Worker w's step returns from Processing for one of the reasons: an error,
\* the break state, the destroy state, a state without a StateHandler, a
\* state with a MessageHandler, or nothing to route the chain to.
EndsCycle(w) ==
    \/ ss'[w].ret # "nil"
    \/ wk[w].pc = "stateSwitch" /\ ss[w].newState = SessStateBreak
    \/ wk[w].pc = "sessDelUpdates" /\ ss[w].newState = SessStateDestroy
    \/ wk[w].pc = "stateSetSave" /\ ~description.States[ss[w].newState].StateHandler
    \/ /\ wk[w].pc \in {"StateHandler", "SendMessage", "SentHandler"}
       /\ description.States[ss[w].newState].MessageHandler
    \/ wk[w].pc \in {"chainGot", "stateProcessing", "stateMessageProcessing",
                     "stateInitProcessing", "stateCallbackProcessing"}

\* C14 as stated: the processing of every claimed chain eventually returns.
C14_Original ==
    \A w \in Workers : (wk[w].pc = "chainGot") ~> (wk[w].pc = "done")

\* C14 The processing of a claimed chain returns unless stateSwitch is
\* called again and again for ever, and it returns only at an error, at
\* break, at destroy, at a state with a MessageHandler, at a state without a
\* StateHandler, or before any stateSwitch when nothing handles the chain.
C14_ReturnsOrRecurses ==
    /\ \A w \in Workers :
        \/ (wk[w].pc = "chainGot") ~> (wk[w].pc = "done")
        \/ []<>(wk[w].pc = "stateSwitch")
    /\ [][\A w \in Workers :
            (wk[w].pc # "done" /\ wk'[w].pc = "done") => EndsCycle(w)]_vars

\* An auto-advance chain that has come back to a state it already entered.
C14_Witness ==
    \E w \in Workers :
        /\ wk[w].pc = "stateSwitch"
        /\ h_disp[w].cnt["stateSwitch"] = CountCap
        /\ h_disp[w].cnt["State"] = CountCap
        /\ h_disp[w].last.st = <<StateB>>
        /\ ss[w].newState = StateB

\* C15 In a cycle of a callback chain whose first update belongs to message
\* m # 0, as long as every StateHandler called has returned StickMessage =
\* true, every SendMessage was called with messageID = m, none with 0.
C15_StickChain ==
    \A w \in Workers :
        (/\ Routes(w, UpdateTypeCallback)
         /\ FirstUpdate(w).mid # 0
         /\ ~h_disp[w].unstuck) =>
            h_disp[w].sendMids \subseteq {FirstUpdate(w).mid}

C15_Witness ==
    \E w \in Workers :
        /\ Finished(w, UpdateTypeCallback)
        /\ FirstUpdate(w).mid # 0
        /\ ~h_disp[w].unstuck
        /\ h_disp[w].cnt["State"] = CountCap
        /\ h_disp[w].cnt["SendMessage"] = CountCap
        /\ h_disp[w].sendMids = {FirstUpdate(w).mid}

\* What SlotGet returned to the handler of worker w that called it last.
Got(w) == so[w].pc = "idle" /\ so[w].op = "SlotGet"

\* The value the handlers left in the slot SlotGet asked for: the one saved
\* last, none after SlotDel or when never saved.
Kept(w) == h_slots[SessionKey(w)][so[w].slot]

\* C16: with an existing session SlotGet returns no error, and (v, true) for
\* the value v that SlotSave stored in the slot last, exists = false for a slot
\* that was deleted or never saved.
C16_Original ==
    \A w \in Workers :
        Got(w) /\ SessionKey(w) \in DOMAIN sess
            => /\ so[w].ret.err = "nil"
               /\ so[w].ret.exists = (Kept(w) # <<>>)
               /\ Kept(w) # <<>> => so[w].ret.data = Kept(w)[1]

\* The same for a SlotGet whose destination held the zero value.
SlotGet_ZeroDestination ==
    \A w \in Workers :
        Got(w) /\ SessionKey(w) \in DOMAIN sess /\ so[w].data = ZeroValue
            => /\ so[w].ret.err = "nil"
               /\ so[w].ret.exists = (Kept(w) # <<>>)
               /\ Kept(w) # <<>> => so[w].ret.data = Kept(w)[1]

\* Worker w's handler calls a slot operation in this step.
SlotCall(w) == so[w].pc = "idle" /\ so'[w] # so[w] /\ so'[w].op # "none"

\* C17: SlotSave, SlotGet and SlotDel called for an identity with no session
\* record return the 'session does not exist' error at once, and the identity
\* still has no session record.
C17_NeverCreates ==
    [][\A w \in Workers :
          SlotCall(w) /\ SessionKey(w) \notin DOMAIN sess
              => /\ so'[w].pc = "idle"
                 /\ so'[w].ret.err = NoSession
                 /\ ~so'[w].ret.exists
                 /\ sess' = sess]_vars

\* An InitHandler, which runs before the first stateSet, has called SlotSave.
C17_Witness ==
    \E w \in Workers :
        /\ wk[w].pc = "stateInitProcessing"
        /\ so[w].op = "SlotSave"
        /\ so[w].ret.err = NoSession
        /\ SessionKey(w) \notin DOMAIN sess

\* The slots of record d other than slot n, names and values.
OtherSlots(d, n) == [x \in DOMAIN d.Slots \ {n} |-> d.Slots[x]]

\* stateSet's redis.sessSave, the sessSave of SlotSave, the sessSave of SlotDel.
StateSetStep(w) == wk[w].pc = "stateSetSave" /\ wk'[w] # wk[w]
SlotSaveStep(w) == so[w].pc = "SlotSaveSave" /\ so'[w] # so[w]
SlotDelStep(w) == so[w].pc = "SlotDelSave" /\ so'[w] # so[w]

\* C18: stateSet(state) creates a record with that state and no slot when the
\* identity has none, and otherwise changes the state field only; SlotSave and
\* SlotDel leave the state field and every other slot as they were. No one
\* touches the record of another identity.
C18_StateSetFrame ==
    [][\A w \in Workers :
          LET k == SessionKey(w)
          IN  /\ StateSetStep(w) /\ k \notin DOMAIN sess
                    => sess' = HSet(sess, k, [State |-> ss[w].newState,
                                              Slots |-> EmptyHash])
              /\ StateSetStep(w) /\ k \in DOMAIN sess
                    => sess' = [sess EXCEPT ![k].State = ss[w].newState]
              /\ SlotSaveStep(w) /\ k \in DOMAIN sess
                    => /\ sess' = [sess EXCEPT ![k].Slots = sess'[k].Slots]
                       /\ so[w].slot \in DOMAIN sess'[k].Slots
                       /\ OtherSlots(sess'[k], so[w].slot) = OtherSlots(sess[k], so[w].slot)
              /\ SlotDelStep(w) /\ k \in DOMAIN sess
                    => /\ sess' = [sess EXCEPT ![k].Slots = sess'[k].Slots]
                       /\ so[w].slot \notin DOMAIN sess'[k].Slots
                       /\ OtherSlots(sess'[k], so[w].slot) = OtherSlots(sess[k], so[w].slot)]_vars

\* A cycle that began with a record holding slots has set another state, and
\* the record holds the same slots.
C18_Witness ==
    \E w \in Workers :
        /\ h_disp[w].cnt["sessSave"] > 0
        /\ h_disp[w].before # <<>>
        /\ SessionKey(w) \in DOMAIN sess
        /\ DOMAIN sess[SessionKey(w)].Slots = SlotNames
        /\ sess[SessionKey(w)].State # h_disp[w].before[1].State
        /\ sess[SessionKey(w)].Slots = h_disp[w].before[1].Slots

\* Worker w's destroy returns in this step.
DestroyReturns(w) == wk[w].pc = "sessDelUpdates" /\ wk'[w].pc = "done"

\* Worker w is processing a chain of its session's identity.
InCycle(w) == ss[w].chatID # 0 /\ wk[w].pc \notin {"idle", "done"}

\* Every update of worker w's chain was received after the last destroy of
\* the identity returned.
ChainAfterDestroy(w) ==
    \A i \in DOMAIN wk[w].uc.updates :
        wk[w].uc.updates[i].UpdateID > h_destroy[SessionKey(w)].rcv

\* The store holds nothing of identity k.
Wiped(k) == k \notin DOMAIN sess /\ k \notin DOMAIN meta /\ updates[k] = <<>>

C20_PersistedDeclared ==
    \A k \in DOMAIN sess :
        /\ sess[k].State \in DOMAIN description.States
        /\ sess[k].State \notin {sessionBreak, sessionDestroy, SessState(Undeclared)}

\* A cycle that began with a record has set another state and was then asked
\* for an undeclared one: the record holds the state that was set.
C20_Witness ==
    \E w \in Workers :
        /\ wk[w].pc = "done"
        /\ ss[w].ret = "ErrDescriptionStateMissing"
        /\ h_disp[w].cnt["sessSave"] > 0
        /\ h_disp[w].before # <<>>
        /\ SessionKey(w) \in DOMAIN sess
        /\ sess[SessionKey(w)].State # h_disp[w].before[1].State

\* In the step of worker w a command, init, message or callback handler, or
\* the StateHandler of the state just set, returns an error.
HandlerFails(w) ==
    \/ /\ h_disp[w].entry.kind = "none"
       /\ h_disp'[w].entry.kind \in {"Command", "Init", "Message", "Callback"}
       /\ h_disp'[w].entry.err
    \/ /\ wk[w].pc = "StateHandler"
       /\ h_disp'[w] # h_disp[w]
       /\ h_disp'[w].last.res # <<>>
       /\ h_disp'[w].last.res[1].err

\* The step returns the handler's error from Processing and writes nothing.
AbortsCycle(w) ==
    /\ wk'[w].pc = "done"
    /\ ss'[w].ret = "handler error"
    /\ sess' = sess /\ meta' = meta /\ updates' = updates
    /\ h_disp'[w].cnt["SendMessage"] = h_disp[w].cnt["SendMessage"]
    /\ h_disp'[w].cnt["Error"] = h_disp[w].cnt["Error"]
    /\ h_disp'[w].cnt["Sent"] = h_disp[w].cnt["Sent"]

\* C21 as stated: the error of a command, init, message, callback or state
\* handler ends the cycle with that error, for every description.
C21_Original ==
    [][\A w \in Workers : HandlerFails(w) => AbortsCycle(w)]_vars

\* C21 When no ErrorHandler is defined, the step in which a command, init,
\* message, callback or state handler returns an error returns that error
\* from Processing: no handler is called after it, nothing is sent and the
\* store is not written. When an ErrorHandler is defined the same step calls
\* it instead, and the cycle ends with an error only if the ErrorHandler
\* returns one.
C21_ErrorAborts ==
    [][\A w \in Workers :
        /\ (HandlerFails(w) /\ ~description.ErrorHandler) => AbortsCycle(w)
        /\ (HandlerFails(w) /\ description.ErrorHandler) =>
                (wk'[w].pc = "ErrorHandler" /\ sess' = sess)
        /\ (wk[w].pc = "ErrorHandler" /\ wk'[w].pc = "done") =>
                (ss'[w].ret = "handler error" /\ sess' = sess)]_vars

\* A StateHandler's error has ended a cycle that a command handler began:
\* the state is persisted, nothing was sent.
C21_Witness ==
    \E w \in Workers :
        /\ wk[w].pc = "done"
        /\ ss[w].ret = "handler error"
        /\ ~description.ErrorHandler
        /\ h_disp[w].entry.kind = "Command"
        /\ ~h_disp[w].entry.err
        /\ StateHandlerFailed(w)
        /\ h_disp[w].cnt["State"] = 1
        /\ h_disp[w].cnt["SendMessage"] = 0
        /\ h_disp[w].cnt["Sent"] = 0
        /\ CurrentRec(w) = <<NewData(h_disp[w].last.st[1])>>

\* In the step of worker w the SentHandler of the state just set returns an
\* error.
SentFails(w) == wk[w].pc = "SentHandler" /\ ss'[w].ret = "handler error"

\* C22 With an ErrorHandler defined, the step in which a command, init,
\* message, callback, state or sent handler returns an error calls the
\* ErrorHandler, and when the ErrorHandler returns without error stateSwitch
\* is entered with its NextState.
C22_Original ==
    [][\A w \in Workers :
        /\ (description.ErrorHandler /\ (HandlerFails(w) \/ SentFails(w))) =>
                wk'[w].pc = "ErrorHandler"
        /\ (wk[w].pc = "ErrorHandler" /\ ss'[w].ret = "nil") =>
                (wk'[w].pc = "stateSwitch" /\ ss'[w].newState \in NextStates)]_vars

\* C23 With a DestroyHandler defined, the step of destroy that deletes the
\* session record comes after a call of the DestroyHandler in that cycle.
C23_Original ==
    [][\A w \in Workers :
        (/\ wk[w].pc = "sessDel"
         /\ wk'[w].pc # "sessDel"
         /\ description.DestroyHandler)
            => h_disp[w].cnt["Destroy"] > 0]_vars

\* The cycle of worker w has ended for a message chain that is not a
\* declared command, of a bot without InitHandler, with no session record
\* when the cycle began.
NoRoutingTarget(w) ==
    /\ Finished(w, UpdateTypeMessage)
    /\ ~DeclaredCommand(w, FALSE)
    /\ ~description.InitHandler
    /\ h_disp[w].before = <<>>

\* C24 Without InitHandler and without a session record, a message chain
\* that is not a declared command makes Processing return nil with no
\* handler called, no message sent and no session record created.
C24_NoTargetNoAction ==
    \A w \in Workers :
        NoRoutingTarget(w) =>
            /\ ss[w].ret = "nil"
            /\ NoHandler(w)
            /\ h_disp[w].cnt["SendMessage"] = 0
            /\ h_disp[w].cnt["stateSwitch"] = 0
            /\ SessionUntouched(w)
            /\ CurrentRec(w) = <<>>

\* The chain is an undeclared command of a bot that declares a command and
\* states with handlers.
C24_Witness ==
    \E w \in Workers :
        /\ NoRoutingTarget(w)
        /\ FirstUpdate(w).cmd = <<"help">>
        /\ description.Commands # <<>>
        /\ description.Commands[1].Handler
        /\ description.States[StateA].MessageHandler
        /\ description.ErrorHandler

\* The cycle of worker w has ended for a declared command whose handler
\* returned the declared state W, which has a StateHandler and no
\* MessageHandler, and W's StateHandler, the only one called, returned a
\* non-empty message with NextState break.
CommandToState(w, W) ==
    /\ Finished(w, UpdateTypeMessage)
    /\ DeclaredCommand(w, TRUE)
    /\ h_disp[w].entry.kind = "Command"
    /\ ~h_disp[w].entry.err
    /\ h_disp[w].entry.ns = W
    /\ W \in DOMAIN description.States
    /\ description.States[W].StateHandler
    /\ ~description.States[W].MessageHandler
    /\ h_disp[w].cnt["State"] = 1
    /\ h_disp[w].last.st = <<W>>
    /\ h_disp[w].last.res = <<[NextState |-> SessStateBreak, err |-> FALSE]>>
    /\ h_disp[w].last.msg

\* The record the cycle began with, in state W, or a new one.
PersistedAs(w, W) ==
    CurrentRec(w) = IF h_disp[w].before = <<>> THEN <<NewData(W)>>
                    ELSE <<[h_disp[w].before[1] EXCEPT !.State = W]>>

\* C25 A declared command whose handler returns a declared state W without
\* MessageHandler, whose StateHandler returns a non-empty message and
\* NextState break: SendMessage is called exactly once, the record of the
\* identity holds state W (created if there was none), and Processing
\* returns nil when the message was delivered and W's SentHandler, if it has
\* one, returned no error; the only errors are the transport's and the
\* SentHandler's.
C25_CommandToState ==
    \A w \in Workers : \A W \in DOMAIN description.States :
        CommandToState(w, W) =>
            /\ h_disp[w].cnt["SendMessage"] = 1
            /\ h_disp[w].cnt["sessSave"] = 1
            /\ h_disp[w].cnt["sessDel"] = 0
            /\ PersistedAs(w, W)
            /\ h_disp[w].sent = 0 <=> ss[w].ret = "send error"
            /\ (h_disp[w].sent # 0 /\ ~description.States[W].SentHandler) => ss[w].ret = "nil"
            /\ ss[w].ret \in {"nil", "send error", "handler error"}
            /\ ss[w].ret = "handler error" => h_disp[w].cnt["Sent"] = 1
            /\ h_disp[w].cnt["Error"] = 0

\* The scenario ended without error for an identity that had no record.
C25_Witness ==
    \E w \in Workers :
        /\ CommandToState(w, StateB)
        /\ ss[w].ret = "nil"
        /\ h_disp[w].before = <<>>
        /\ h_disp[w].sent = NewMessageID
        /\ CurrentRec(w) = <<NewData(StateB)>>

\* Worker w's chainGet has returned without having won a meta: nothing was
\* ready, or another caller deleted every ready meta first.
CameBackEmpty(w) == wk[w].pc = "chainGot" /\ ~h_win[w].won

\* Worker w's HDel removed nothing: another caller owns that queue.
LosesRace(w) == wk[w].pc = "metaDel" /\ wk'[w] # wk[w] /\ h_win'[w].won = h_win[w].won

\* C26 A chainGet that wins no meta returns the empty chain and no error;
\* Processing then returns nil in its next step, with no handler called, no
\* session record read or written; and a lost delete race takes chainGet
\* back to its loop with the remaining metas still to scan.
C26_AbsenceNoError ==
    /\ [](\A w \in Workers :
            CameBackEmpty(w) => (wk[w].uc = EmptyChain /\ wk[w].err = "nil"))
    /\ [][\A w \in Workers :
            (CameBackEmpty(w) /\ wk'[w] # wk[w]) =>
                /\ wk'[w].pc = "done"
                /\ ss'[w].ret = "nil"
                /\ h_disp'[w] = NoDisp
                /\ sess' = sess /\ meta' = meta /\ updates' = updates]_vars
    /\ [][\A w \in Workers :
            LosesRace(w) => (wk'[w].pc = "scan" /\ wk'[w].qm = wk[w].qm /\ meta' = meta)]_vars

\* A caller lost the race for the only ready queue, went on to the meta
\* still waiting, found the loop at its end and Processing returned nil.
C26_Witness ==
    \E w \in Workers :
        /\ wk[w].pc = "done" /\ ss[w].ret = "nil"
        /\ h_win[w].lost /\ ~h_win[w].won
        /\ wk[w].uc = EmptyChain
        /\ wk[w].qm = {}
        /\ ~After(now, wk[w].m.waitTill)
        /\ <<wk[w].m.chatID, wk[w].m.userID>> \in DOMAIN meta
        /\ h_disp[w] = NoDisp
        /\ sess = EmptyHash

\* The identity of the update that enqueue call a carries.
AbKey(a) == updateIDsGet(ab[a].update)

\* C27 as stated: no state has a meta written by an enqueue call whose event
\* is not in the buffer yet (the call has written the meta and not returned).
C27_Original ==
    \A a \in Absorbers : ab[a].pc = "updateAdd" => ab[a].update \in h_enq

\* C27 queue.add writes the meta first and appends the event after it: an
\* event is appended only by a call whose identity has its meta, with no
\* claim in between a non-empty buffer always has a meta, a failed meta
\* write appends nothing and leaves the meta as it was, and a failed append
\* leaves the meta that the call has written.
C27_MetaFirst ==
    /\ [](\A k \in Keys : updates[k] # <<>> => k \in DOMAIN meta)
    /\ [](\A a \in Absorbers : ab[a].pc = "updateAdd" => AbKey(a) \in DOMAIN meta)
    /\ [][\A a \in Absorbers :
            /\ (ab[a].pc = "metaAdd" /\ ab'[a].pc = "updateAdd") =>
                    (updates' = updates /\ meta'[AbKey(a)] = ab[a].waitTill)
            /\ (ab[a].pc = "metaAdd" /\ ab'[a].pc = "idle") =>
                    (updates' = updates /\ meta' = meta /\ h_enq' = h_enq)
            /\ (ab[a].pc = "updateAdd" /\ ab'[a].pc = "idle") =>
                    /\ meta' = meta
                    /\ \/ updates' = updates /\ h_enq' = h_enq
                       \/ updates' = [updates EXCEPT ![AbKey(a)] = Append(@, ab[a].update)]]_vars

\* An enqueue call has created the identity's meta and its event is not in
\* the buffer, which is empty.
C27_Witness ==
    \E a \in Absorbers :
        /\ ab[a].pc = "updateAdd"
        /\ AbKey(a) \in DOMAIN meta
        /\ meta[AbKey(a)] = ab[a].waitTill
        /\ updates[AbKey(a)] = <<>>
        /\ ab[a].update \notin h_enq

\* Worker w's chain begins with a command the description declares without
\* a handler, and stateProcessing has dealt with it.
NilHandlerCommand(w) ==
    /\ Routes(w, UpdateTypeMessage)
    /\ DeclaredCommand(w, FALSE)
    /\ ~DeclaredCommand(w, TRUE)

\* C28 as stated: a declared command without a handler is routed as a
\* message that is no command: with no session the InitHandler is called,
\* with a session in a state that has a MessageHandler that handler is.
C28_Original ==
    \A w \in Workers :
        (NilHandlerCommand(w) /\ wk[w].pc = "done") =>
            /\ (h_disp[w].before = <<>> /\ description.InitHandler) =>
                    h_disp[w].cnt["Init"] = 1
            /\ (/\ h_disp[w].before # <<>>
                /\ h_disp[w].before[1].State \in DOMAIN description.States
                /\ description.States[h_disp[w].before[1].State].MessageHandler) =>
                    h_disp[w].cnt["Message"] = 1

\* C28 A declared command whose Handler is nil pre-empts routing like one
\* with a handler: Processing returns nil at once, no handler is called,
\* nothing is sent, no stateSwitch is entered and the session record is
\* neither read nor written.
C28_NilHandlerEndsCycle ==
    \A w \in Workers :
        NilHandlerCommand(w) =>
            /\ wk[w].pc = "done"
            /\ ss[w].ret = "nil"
            /\ NoHandler(w)
            /\ h_disp[w].cnt["SendMessage"] = 0
            /\ h_disp[w].cnt["stateSwitch"] = 0
            /\ h_disp[w].cnt["lookup"] = 0
            /\ SessionUntouched(w)

\* The cycle has ended for such a command of a bot with an InitHandler and
\* no session for the identity: the InitHandler was not called.
C28_Witness ==
    \E w \in Workers :
        /\ NilHandlerCommand(w)
        /\ wk[w].pc = "done"
        /\ description.InitHandler
        /\ h_disp[w].before = <<>>
        /\ CurrentRec(w) = <<>>
        /\ h_disp[w].cnt["Init"] = 0

\* In the step worker w's stateSwitch, having sent its state's message,
\* calls stateSwitch for the NextState.
RecursesAfterSend(w) ==
    /\ wk[w].pc \in {"SendMessage", "SentHandler"}
    /\ wk'[w].pc = "stateSwitch"

\* C29 as stated: the stateSwitch called after a send receives the id of the
\* message just sent as its prior message id.
C29_Original ==
    [][\A w \in Workers :
        RecursesAfterSend(w) => ss'[w].messageID = h_disp'[w].sent]_vars

\* C29 The stateSwitch called after a send receives the id that was passed
\* to SendMessage: the caller's own prior message id if its StateHandler
\* returned StickMessage = true, else 0; so after a message sent as new the
\* next state gets 0 and, sticking or not, sends a new message as well.
C29_PassesSendArgument ==
    /\ [][\A w \in Workers :
            RecursesAfterSend(w) =>
                /\ ss'[w].messageID = ss[w].mID
                /\ ss'[w].newState = ss[w].hr.NextState
                /\ ss[w].mID = 0 => (ss'[w].messageID = 0 /\ h_disp'[w].sent = NewMessageID)]_vars
    /\ [](\A w \in Workers :
            wk[w].pc = "SendMessage" =>
                ss[w].mID = IF ss[w].hr.StickMessage THEN ss[w].messageID ELSE 0)

\* A sticking state, entered after the state before it had sent a new
\* message, is about to send a new message itself.
C29_Witness ==
    \E w \in Workers :
        /\ wk[w].pc = "SendMessage"
        /\ ss[w].hr.StickMessage
        /\ ss[w].mID = 0
        /\ h_disp[w].cnt["SendMessage"] = 1
        /\ h_disp[w].sent = NewMessageID
        /\ h_disp[w].cnt["stateSwitch"] = 2

\* C30 Inside one stateSwitch for a declared state S: when S's StateHandler
\* is called the session record holds state S; SendMessage is called only
\* with a non-empty message returned by that StateHandler; the SentHandler
\* is called only in the frame whose SendMessage has just returned without
\* error, and only after it does stateSwitch return or call itself.
C30_StepOrder ==
    /\ [](\A w \in Workers :
            /\ wk[w].pc = "StateHandler" =>
                    /\ ss[w].newState \in DOMAIN description.States
                    /\ CurrentRec(w) # <<>>
                    /\ CurrentRec(w)[1].State = ss[w].newState
                    /\ h_disp[w].cnt["sessSave"] > 0
            /\ wk[w].pc = "SendMessage" =>
                    /\ ss[w].hr.Message /\ ~ss[w].hr.err
                    /\ h_disp[w].last.msg
                    /\ h_disp[w].last.st = <<ss[w].newState>>
            /\ wk[w].pc = "SentHandler" =>
                    /\ ss[w].hr.Message
                    /\ h_disp[w].last.st = <<ss[w].newState>>
                    /\ h_disp[w].sent = MessageSentID(ss[w].mID)
                    /\ h_disp[w].cnt["SendMessage"] > 0)
    /\ [][\A w \in Workers :
            /\ (wk'[w].pc = "StateHandler" /\ wk[w].pc # "StateHandler") =>
                    /\ wk[w].pc = "stateSetSave"
                    /\ SessionKey(w) \in DOMAIN sess'
                    /\ sess'[SessionKey(w)] = ss[w].d
                    /\ ss[w].d.State = ss[w].newState
            /\ (wk'[w].pc = "SendMessage" /\ wk[w].pc # "SendMessage") =>
                    wk[w].pc = "StateHandler"
            /\ (wk'[w].pc = "SentHandler" /\ wk[w].pc # "SentHandler") =>
                    /\ wk[w].pc = "SendMessage"
                    /\ ss'[w] = ss[w]
                    /\ h_disp'[w].sent # 0
                    /\ h_disp'[w].cnt["stateSwitch"] = h_disp[w].cnt["stateSwitch"]
            /\ (wk[w].pc = "SendMessage" /\ wk'[w].pc = "stateSwitch") =>
                    ~description.States[ss[w].newState].SentHandler
            /\ (wk[w].pc = "SendMessage" /\ ss'[w].ret = "send error") =>
                    (wk'[w].pc = "done" /\ h_disp'[w].cnt["Sent"] = h_disp[w].cnt["Sent"])
            /\ (wk[w].pc = "SentHandler" /\ wk'[w].pc # "SentHandler") =>
                    wk'[w].pc \in {"done", "stateSwitch"}]_vars

\* The SentHandler of the state a command handler returned is being called:
\* the state is persisted and its message was sent as a new message.
C30_Witness ==
    \E w \in Workers :
        /\ wk[w].pc = "SentHandler"
        /\ h_disp[w].entry.kind = "Command"
        /\ h_disp[w].cnt["stateSwitch"] = 1
        /\ h_disp[w].cnt["State"] = 1
        /\ h_disp[w].cnt["SendMessage"] = 1
        /\ h_disp[w].cnt["Sent"] = 0
        /\ h_disp[w].sent = NewMessageID
        /\ CurrentRec(w) = <<NewData(ss[w].newState)>>

\* In the step of worker w a store call of stateSet or the SendMessage of
\* stateSwitch fails.
SwitchCallFails(w) ==
    /\ wk[w].pc \in {"stateSetGet", "stateSetSave", "SendMessage"}
    /\ ss'[w].ret \in {"store error", "send error"}

\* C31 When a store call of stateSet or SendMessage fails inside stateSwitch
\* for state S, that step returns the error from Processing: no SentHandler
\* or ErrorHandler is called, no stateSwitch is entered, and the session
\* record is left as the last successful write left it, in state S when the
\* failing call is SendMessage.
C31_FailureAborts ==
    [][\A w \in Workers :
        SwitchCallFails(w) =>
            /\ wk'[w].pc = "done"
            /\ sess' = sess /\ meta' = meta /\ updates' = updates
            /\ h_disp'[w].cnt["Sent"] = h_disp[w].cnt["Sent"]
            /\ h_disp'[w].cnt["Error"] = h_disp[w].cnt["Error"]
            /\ h_disp'[w].cnt["State"] = h_disp[w].cnt["State"]
            /\ h_disp'[w].cnt["stateSwitch"] = h_disp[w].cnt["stateSwitch"]
            /\ h_disp'[w].cnt["sessSave"] = h_disp[w].cnt["sessSave"]
            /\ wk[w].pc = "SendMessage" =>
                    /\ ss'[w].ret = "send error"
                    /\ CurrentRec(w) # <<>>
                    /\ CurrentRec(w)[1].State = ss[w].newState
            /\ wk[w].pc # "SendMessage" =>
                    /\ ss'[w].ret = "store error"
                    /\ h_disp[w].cnt["sessSave"] = 0 => CurrentRec(w) = h_disp[w].before]_vars

\* The write of the second state of an auto-advance chain has failed: the
\* record holds the first state.
C31_Witness ==
    \E w \in Workers :
        /\ wk[w].pc = "done"
        /\ ss[w].ret = "store error"
        /\ h_disp[w].cnt["stateSwitch"] = 2
        /\ h_disp[w].cnt["sessSave"] = 1
        /\ h_disp[w].cnt["SendMessage"] = 1
        /\ h_disp[w].last.st = <<StateB>>
        /\ CurrentRec(w) = <<NewData(StateA)>>

\* In the step of worker w a store call of chainGet fails.
ScanCallFails(w) ==
    /\ wk[w].pc \in {"idle", "metaDel", "llen", "lpop"}
    /\ wk'[w].pc = "chainGot"
    /\ wk'[w].err # "nil"

\* C32 A store call that fails during chainGet (HGetAll of the metas, HDel
\* of a meta, LLen or LPop of the list) ends chainGet in that step with the
\* error and the empty chain, the metas not yet examined stay unexamined,
\* and Processing returns that error in its next step without a handler,
\* a send or a session store call.
C32_ErrorAbortsScan ==
    /\ [][\A w \in Workers :
            /\ ScanCallFails(w) =>
                    /\ wk'[w].uc = EmptyChain
                    /\ wk[w].pc # "idle" => wk'[w].qm = wk[w].qm
                    /\ meta' = meta /\ sess' = sess
            /\ (wk[w].pc = "chainGot" /\ wk[w].err # "nil" /\ wk'[w] # wk[w]) =>
                    /\ wk'[w].pc = "done"
                    /\ ss'[w].ret = wk[w].err
                    /\ h_disp'[w] = NoDisp
                    /\ sess' = sess /\ meta' = meta /\ updates' = updates]_vars
    /\ [](\A w \in Workers :
            (wk[w].pc \in {"chainGot", "done"} /\ wk[w].err # "nil") =>
                (wk[w].uc = EmptyChain /\ h_disp[w] = NoDisp))

\* Processing has returned the store error of a drain that failed after the
\* claim was won, with a ready meta of the other identity left unexamined.
C32_Witness ==
    \E w \in Workers :
        /\ wk[w].pc = "done"
        /\ ss[w].ret = "store error"
        /\ h_win[w].won
        /\ wk[w].qm # {}
        /\ \E m \in wk[w].qm : After(now, m.waitTill) /\ <<m.chatID, m.userID>> \in DOMAIN meta

\* The update u is an element of the sequence s.
InSeq(u, s) == \E i \in DOMAIN s : s[i] = u

\* C38 When chainGet has failed after winning the claim of an identity,
\* every update that was in the identity's list at the claim is still in the
\* list with a meta of the identity present, or is in the returned chain.
C38_Original ==
    \A w \in Workers :
        (wk[w].pc = "chainGot" /\ wk[w].err # "nil" /\ h_win[w].won) =>
            LET k == <<wk[w].m.chatID, wk[w].m.userID>>
            IN  \A i \in DOMAIN h_win[w].buf :
                    \/ InSeq(h_win[w].buf[i], updates[k]) /\ k \in DOMAIN meta
                    \/ InSeq(h_win[w].buf[i], wk[w].uc.updates)

\* C39 One chainGet call wins at most one claim: the winning HDel is the
\* call's first win, after it the call neither examines nor deletes another
\* meta, its remaining steps change nothing but the claimed identity's list,
\* and it returns the drained chain.
C39_OneClaimPerScan ==
    /\ [][\A w \in Workers :
            /\ (wk[w].pc = "metaDel" /\ wk'[w].pc = "llen") => ~h_win[w].won
            /\ (h_win[w].won /\ wk[w].pc # "chainGot" /\ wk'[w] # wk[w]) =>
                    /\ meta' = meta
                    /\ wk'[w].pc \in {"llen", "lpop", "add", "chainGot"}
                    /\ \A k \in Keys : k # <<wk[w].m.chatID, wk[w].m.userID>> =>
                            updates'[k] = updates[k]]_vars
    /\ [](\A w \in Workers : h_win[w].won => wk[w].pc \in {"llen", "lpop", "add", "chainGot"})

\* A chainGet has returned the chain of the identity it claimed while the
\* meta of another identity it had listed as ready is still present with a
\* non-empty list.
C39_Witness ==
    \E w \in Workers :
        /\ wk[w].pc = "chainGot"
        /\ h_win[w].won
        /\ wk[w].err = "nil"
        /\ Len(wk[w].uc.updates) > 0
        /\ \E m \in wk[w].qm :
              LET k == <<m.chatID, m.userID>>
              IN  /\ After(now, m.waitTill)
                  /\ k \in DOMAIN meta
                  /\ meta[k] = m.waitTill
                  /\ updates[k] # <<>>

\* No enqueue and no claim is in progress: every absorber is between two
\* UpdateAbsorb calls and every worker is between two chainGet calls.
Quiescent ==
    /\ \A a \in Absorbers : ab[a].pc = "idle"
    /\ \A w \in Workers : wk[w].pc = "idle"

\* C37 When no enqueue, claim or destroy is in progress, an identity with a
\* non-empty list has a meta.
C37_Original ==
    Quiescent => \A k \in Keys : updates[k] # <<>> => k \in DOMAIN meta

\* The messages an enqueue can have accepted.
AcceptedMessages == {[tmpl EXCEPT !.UpdateID = i] : tmpl \in IncomingMessages, i \in 1..MaxUpdates}

\* The update u is in the list of its identity.
Buffered(u) == InSeq(u, updates[updateIDsGet(u)])

\* A chainGet returns a chain that holds the update u.
Returned(u) == \E w \in Workers : wk[w].pc = "chainGot" /\ InSeq(u, wk[w].uc.updates)

\* C36 With workers that keep calling, a clock that advances and no store
\* error, every update an enqueue has put in its identity's list is
\* eventually returned in the chain of some chainGet.
C36_Original == \A u \in AcceptedMessages : Buffered(u) ~> Returned(u)

\* Worker w has won the claim of identity k and its Processing call has not
\* yet come to its return.
Holds(w, k) ==
    /\ h_win[w].won
    /\ <<wk[w].m.chatID, wk[w].m.userID>> = k
    /\ wk[w].pc \notin {"idle", "scan", "metaDel", "done"}

\* C35 At any time at most one worker is between winning the claim of an
\* identity and returning from the processing of that identity's chain.
C35_Original ==
    \A k \in Keys : \A v, w \in Workers : (Holds(v, k) /\ Holds(w, k)) => v = w

\* What the store holds for identity k: its meta, its list and its session.
Entry(k) ==
    <<IF k \in DOMAIN meta THEN <<meta[k]>> ELSE <<>>,
      updates[k],
      IF k \in DOMAIN sess THEN <<sess[k]>> ELSE <<>>>>

\* The step is one of an enqueue of an update of identity k, or of a worker
\* whose claimed meta or whose session is the one of identity k.
ActsFor(k) ==
    \/ \E a \in Absorbers :
          /\ ab'[a] # ab[a]
          /\ \/ <<ab[a].update.chat, ab[a].update.user>> = k
             \/ <<ab'[a].update.chat, ab'[a].update.user>> = k
    \/ \E w \in Workers :
          /\ wk'[w] # wk[w] \/ ss'[w] # ss[w] \/ so'[w] # so[w]
          /\ <<wk[w].m.chatID, wk[w].m.userID>> = k

\* C33 Every step of an operation performed for an identity (enqueue, claim
\* and drain, stateSet, slot save and delete, destroy) leaves the meta, the
\* list and the session record of every other identity unchanged: what the
\* store holds for an identity changes only in steps of operations for it,
\* and a worker's session is the one of the identity it claimed.
C33_IdentityIsolation ==
    /\ [][\A k \in Keys : Entry(k)' # Entry(k) => ActsFor(k)]_vars
    /\ [](\A w \in Workers :
            ss[w].chatID # 0 => SessionKey(w) = <<wk[w].m.chatID, wk[w].m.userID>>)

\* A worker has claimed, switched state, saved a slot and returned for the
\* first identity and an enqueue for the other identity has completed, and
\* the other identity's session and first update are as they were.
C33_Witness ==
    \E w \in Workers :
        /\ wk[w].pc = "done"
        /\ SessionKey(w) = ReadyKey
        /\ ReadyKey \in DOMAIN sess
        /\ DOMAIN sess[ReadyKey].Slots # {}
        /\ sess[OtherKey] = NewData(StateA)
        /\ Len(updates[OtherKey]) = 2
        /\ updates[OtherKey][1] = MkUpdate(2, TRUE, FALSE, 1, 2, <<>>, <<>>, NoData, 1)
        /\ meta[OtherKey] = addWaitTill(now)

\* The string holds no byte that is not valid UTF-8.
ValidUTF8(str) == \A n \in DOMAIN str : str[n] # InvalidByte

\* Worker w decodes the data of a click on the button b.
Clicked(w, b) ==
    /\ wk[w].pc = "stateCallbackProcessing"
    /\ callbackDataGet(wk[w].uc) = b.data

\* C34 (as claimed) Decoding the data of a click on a button encoded with
\* callbackDataGen(s, i) returns (s, i) without error, for every state s and
\* every identifier i.
C34_Original ==
    \A w \in Workers : \A b \in buttons :
        Clicked(w, b) =>
            callbackSessionStateGet(wk[w].uc) =
                [state |-> b.state, identifier |-> b.identifier, err |-> FALSE]

\* C34 Decoding the data of a click on a button encoded with
\* callbackDataGen(s, i) returns (s, i) without error for every state s
\* (user-defined, break or destroy) and identifier i that are valid UTF-8;
\* stateSwitch's SendMessage for state S encodes its buttons with s = S, and
\* a click on such a button is routed to the CallbackHandler of S with the
\* identifier i, a click on a break or destroy button to stateSwitch.
C34_RoundTripValidUTF8 ==
    /\ [](\A w \in Workers : \A b \in buttons :
            (Clicked(w, b) /\ ValidUTF8(b.state) /\ ValidUTF8(b.identifier)) =>
                callbackSessionStateGet(wk[w].uc) =
                    [state |-> b.state, identifier |-> b.identifier, err |-> FALSE])
    /\ [][\A w \in Workers :
            /\ (wk[w].pc = "SendMessage" /\ wk'[w].pc # "SendMessage") =>
                    \A b \in buttons' \ buttons :
                        /\ b.state = ss[w].newState
                        /\ b.data = callbackDataGen(ss[w].newState, b.identifier)
            /\ \A b \in buttons :
                (Clicked(w, b) /\ ValidUTF8(b.identifier) /\ wk'[w].pc # wk[w].pc) =>
                    IF b.state \in {sessionBreak, sessionDestroy}
                    THEN wk'[w].pc = "stateSwitch" /\ ss'[w].newState = b.state
                    ELSE /\ h_disp'[w].entry.kind = "Callback"
                         /\ h_disp'[w].entry.st = b.state
                         /\ h_disp'[w].entry.a = b.identifier]_vars

\* The CallbackHandler of state "b" has been called with the identifier "1"
\* for a click on a button that stateSwitch sent for state "b".
C34_Witness ==
    \E w \in Workers :
        /\ h_disp[w].entry.kind = "Callback"
        /\ h_disp[w].entry.st = StateB
        /\ h_disp[w].entry.a = <<"1">>
        /\ wk[w].uc = ClickChain(Button(ReadyKey[1], StateB, <<"1">>))
        /\ Button(ReadyKey[1], StateB, <<"1">>) \in buttons

\* C40 For all names n and m, also the empty name and the text of the
\* destroy state, SessState(n) is neither the break nor the destroy state
\* and SessState(n) = SessState(m) exactly when n = m; stateSwitch to
\* SessState(n) sets the declared state instead of ending the cycle or
\* destroying the session, and a click on a button sent for SessState(n) is
\* routed to the CallbackHandler of that state.
C40_ReservedDisjoint ==
    /\ [](\A n, m \in LookalikeNames \cup {Undeclared} :
            /\ SessState(n) \notin {SessStateBreak, SessStateDestroy}
            /\ SessState(n) = SessState(m) <=> n = m)
    /\ [][\A w \in Workers : \A n \in LookalikeNames :
            /\ (wk[w].pc = "stateSwitch" /\ ss[w].newState = SessState(n)
                    /\ wk'[w].pc # "stateSwitch") =>
                    /\ wk'[w].pc = "stateSetGet"
                    /\ h_disp'[w].last.st = <<SessState(n)>>
            /\ \A b \in buttons :
                (Clicked(w, b) /\ b.state = SessState(n) /\ wk'[w].pc # wk[w].pc) =>
                    /\ h_disp'[w].entry.kind = "Callback"
                    /\ h_disp'[w].entry.st = SessState(n)]_vars

\* The session has been set to the state named like the destroy state, and
\* a click on the button of the state with the empty name has reached that
\* state's CallbackHandler.
C40_Witness ==
    \E w \in Workers :
        /\ ReadyKey \in DOMAIN sess
        /\ sess[ReadyKey].State = SessState(<<"internal:destroy">>)
        /\ h_disp[w].entry.kind = "Callback"
        /\ h_disp[w].entry.st = SessState(<<>>)

====
